---- MODULE Spec2Model ----
(***************************************************************************)
(* A model of the composite recommendation engine of ai-composite-selector *)
(*   src/app/composite_selector.py  CompositeDatabase, CompositeSelector   *)
(*   src/app/model_trainer.py       CompositeModelTrainer                  *)
(*                                                                         *)
(* Units.  Python floats are modelled by exact integers:                   *)
(*   polymerization_shrinkage_percent  tenths of a percent (3.0 % = 30)    *)
(*   depth_of_cure_mm                  tenths of a millimetre (4.0 = 40)   *)
(*   microhardness_KHN, filler_content_percent, price_rub   whole units    *)
(*   a score                           score * 2000 * max_hardness         *)
(*                                     * max_shrinkage (see ScoreUnit)     *)
(* Optional[T] is a sequence: <<>> is None, <<v>> is the value v.          *)
(* A Python string that the code takes apart (a wear-severity code) is the *)
(* sequence of its tokens: "twes_3" is <<"twes_", "3">>, "" is <<>>.       *)
(* A DataFrame is the sequence of its rows (records), each row carrying    *)
(* its index label idx; a column the frame lacks is <<>> in every row.     *)
(***************************************************************************)
EXTENDS Integers, Sequences, FiniteSets, TLC

VARIABLES
    db,              \* the CompositeDatabase: composites + the four tables
    call,            \* the call in progress / last made: [op, args]
    filtered,        \* filter_composites' returned DataFrame
    priority_results,    \* select_composite's local list, after the sort
    alternative_results, \* select_composite's local list, after the sort
    ret,             \* select_composite's returned list
    score_calls,     \* the last two calculate_composite_score calls
    model,           \* CompositeModelTrainer.model
    scaler,          \* CompositeModelTrainer.scaler
    feature_names,   \* CompositeModelTrainer.feature_names
    train_calls,     \* number of train calls made so far
    train_ret,       \* the outcome of the last train call
    saved,           \* the model file save_model wrote, None before
    completed,       \* history: a train call has completed on this
                     \* trainer, or a trained artifact was loaded into it
    normalizer,      \* the EMGNormalizer: its reference_apparatus
    extracted_pairs, \* ClinicalDataExtractor.extracted_pairs
    result           \* what the last call of any other operation returned
                     \* or raised

vars == <<db, call, filtered, priority_results, alternative_results, ret,
          score_calls, model, scaler, feature_names, train_calls, train_ret,
          saved, completed, normalizer, extracted_pairs, result>>

catalogVars == <<db, call, filtered, priority_results, alternative_results,
                 ret, score_calls>>
trainerVars == <<model, scaler, feature_names, train_calls, train_ret,
                 saved, completed>>
toolVars == <<normalizer, extracted_pairs, result>>

----------------------------------------------------------------------------
(* Python values *)

None == <<>>
Some(v) == <<v>>

\* Python truthiness of an Optional[int] / Optional[float]: None and 0 are false
TruthyNum(o) == o # None /\ o[1] # 0
\* of an Optional[str] (a token sequence) or Optional[List]: None and empty are false
TruthyStr(o) == o # None /\ o[1] # <<>>
TruthyList(o) == o # None /\ o[1] # {}

\* dict.get(key, default)
Get(d, key, default) == IF key \in DOMAIN d THEN d[key] ELSE default

\* str.startswith(tok) and str.replace(tok, '') on a token sequence
StartsWith(s, tok) == Len(s) > 0 /\ s[1] = tok
Replace(s, tok) == SelectSeq(s, LAMBDA t : t # tok)

\* list[:n], Python's slice: a negative n counts from the end
Slice(s, n) ==
    LET k == IF n >= 0 THEN (IF n < Len(s) THEN n ELSE Len(s))
             ELSE (IF Len(s) + n > 0 THEN Len(s) + n ELSE 0)
    IN  SubSeq(s, 1, k)

SeqMax(s) == CHOOSE m \in {s[i] : i \in DOMAIN s} :
                 \A i \in DOMAIN s : s[i] <= m

----------------------------------------------------------------------------
(* The catalog file: composites and the criteria / classification tables.  *)
(* The file itself is data outside the source tree; Init draws it from the *)
(* sets below.                                                             *)

\* A material record: name, category, viscosity, hardness, shrinkage, filler,
\* wear resistance, depth of cure, suitable, capping, region, manufacturer,
\* year, price
Composite(n, c, v, khn, shr, fil, wear, dep, suit, cap, reg, man, yr, pr) ==
    [name |-> n, category |-> c, viscosity |-> v,
     microhardness_KHN |-> khn,
     polymerization_shrinkage_percent |-> shr,
     filler_content_percent |-> fil, wear_resistance |-> wear,
     depth_of_cure_mm |-> dep, suitable_for_occlusal |-> suit,
     requires_capping |-> cap, region |-> reg,
     manufacturer |-> man, year_released |-> yr,
     price_rub |-> pr]

\* The material records catalogs are made of.  1 and 2 are the two
\* composites of the specification's scenario A; 3 is 1 with a lower
\* hardness; 4 is a twin of 1 from another manufacturer; 5..7 are
\* high-filler materials (7 is 5 with hardness 65, scenario B); 8 is a weak
\* in-band material; 9..13 each miss exactly one occlusal requirement or the
\* filler floor.
Pool == <<
    Composite("C1", "nanohybrid", "high", 80, 20, 30, "high", 40,
              TRUE, FALSE, "EU", "M1", 2015, 3000),
    Composite("C2", "nanohybrid", "high", 80, 40, 30, "high", 40,
              TRUE, FALSE, "EU", "M1", 2015, 3000),
    Composite("C3", "nanohybrid", "high", 65, 20, 30, "high", 40,
              TRUE, FALSE, "EU", "M1", 2015, 3000),
    Composite("C4", "nanohybrid", "high", 80, 20, 30, "high", 40,
              TRUE, FALSE, "RU", "M2", 2021, 1500),
    Composite("C5", "high_viscosity_bulk_fill", "high", 90, 15, 60,
              "very_high", 40, TRUE, FALSE, "RU", "M2", 2021, 5000),
    Composite("C6", "high_viscosity_bulk_fill", "high", 90, 15, 60,
              "very_high", 40, TRUE, FALSE, "EU", "M1", 2012, 4000),
    Composite("C7", "high_viscosity_bulk_fill", "high", 65, 15, 60,
              "very_high", 40, TRUE, FALSE, "RU", "M2", 2021, 5000),
    Composite("C8", "microhybrid", "high", 55, 28, 52, "medium", 20,
              TRUE, FALSE, "US", "M3", 2018, 2000),
    Composite("C9", "nanohybrid", "high", 80, 20, 15, "high", 40,
              TRUE, FALSE, "EU", "M1", 2015, 3000),
    Composite("C10", "nanohybrid", "high", 80, 20, 30, "high", 40,
              FALSE, FALSE, "EU", "M1", 2015, 3000),
    Composite("C11", "nanohybrid", "high", 80, 20, 30, "high", 40,
              TRUE, TRUE, "EU", "M1", 2015, 3000),
    Composite("C12", "nanohybrid", "low", 80, 20, 30, "high", 40,
              TRUE, FALSE, "EU", "M1", 2015, 3000),
    Composite("C13", "flowable", "high", 45, 20, 88, "low", 40,
              TRUE, FALSE, "EU", "M1", 2015, 3000)
>>

\* The values of required.suitable_for_occlusal and required.requires_capping
\* in the catalog file's selection criteria.
required_suitable_for_occlusal == TRUE
required_requires_capping == FALSE

\* selection_criteria: the occlusal maximum shrinkage, minimum hardness and
\* excluded categories, the anomaly minimum hardness and maximum shrinkage
Criteria(shrinkage_max, khn_min, excluded, a_khn_min, a_shrinkage_max) ==
    [for_occlusal_restorations |->
        [required |->
            [viscosity |-> "high",
             polymerization_shrinkage_percent_max |-> shrinkage_max,
             microhardness_KHN_min |-> khn_min,
             suitable_for_occlusal |-> required_suitable_for_occlusal,
             requires_capping |-> required_requires_capping],
         excluded_categories |-> excluded],
     for_patients_with_occlusion_anomalies |->
        [additional_requirements |->
            [microhardness_KHN_min |-> a_khn_min,
             polymerization_shrinkage_percent_max |-> a_shrinkage_max]]]

EmgClassification(none_mild_min, moderate_severe_min, recommended_wear) ==
    [wear_severity_none_mild |->
        [recommended_microhardness_min |-> none_mild_min],
     wear_severity_moderate_severe |->
        [recommended_microhardness_min |-> moderate_severe_min,
         recommended_wear_resistance |-> recommended_wear]]

EmptyDict == [k \in {} |-> 0]

\* Two catalog files' tables.  TablesA: Bushan degrees I and III (III asks
\* for hardness 70, scenario B), TWES grade 3.  TablesB: looser occlusal
\* thresholds, no Bushan table at all, a TWES grade 2 record that leaves
\* its filler minimum to the code's default, and a TWES grade 4 record that
\* leaves everything to the defaults.
TablesA ==
    [criteria |-> Criteria(35, 50, {"flowable"}, 70, 25),
     emg_based_classification |-> EmgClassification(50, 70, "very_high"),
     bushan_classification |->
        [name |-> "Bushan",
         degrees |->
            (<<"I">> :> [recommended_microhardness_min |-> 50,
                         recommended_wear_resistance |-> "medium",
                         recommended_filler_min |-> 25]) @@
            (<<"III">> :> [recommended_microhardness_min |-> 70,
                           recommended_wear_resistance |-> "very_high",
                           recommended_filler_min |-> 55])],
     twes2_classification |->
        [grades |->
            (<<"3">> :> [recommended_microhardness_min |-> 70,
                         recommended_wear_resistance |-> "very_high",
                         recommended_filler_min |-> 60])]]

TablesB ==
    [criteria |-> Criteria(45, 40, {}, 60, 30),
     emg_based_classification |-> EmgClassification(40, 60, "high"),
     bushan_classification |-> EmptyDict,
     twes2_classification |->
        [grades |->
            (<<"2">> :> [recommended_microhardness_min |-> 60,
                         recommended_wear_resistance |-> "high"]) @@
            (<<"4">> :> EmptyDict)]]

Tables == {TablesA, TablesB}

----------------------------------------------------------------------------
(* CompositeDatabase *)

\* pd.DataFrame(data['composites']): row i of the list gets index label i-1;
\* the frame has no filler_optimal column.
DataFrame(records) ==
    [i \in 1..Len(records) |->
        [idx |-> i - 1, filler_optimal |-> None,
         name |-> records[i].name, category |-> records[i].category,
         viscosity |-> records[i].viscosity,
         microhardness_KHN |-> records[i].microhardness_KHN,
         polymerization_shrinkage_percent |->
             records[i].polymerization_shrinkage_percent,
         filler_content_percent |-> records[i].filler_content_percent,
         wear_resistance |-> records[i].wear_resistance,
         depth_of_cure_mm |-> records[i].depth_of_cure_mm,
         suitable_for_occlusal |-> records[i].suitable_for_occlusal,
         requires_capping |-> records[i].requires_capping,
         region |-> records[i].region,
         manufacturer |-> records[i].manufacturer,
         year_released |-> records[i].year_released,
         price_rub |-> records[i].price_rub]]

\* CompositeDatabase.__init__ on a catalog file holding `records` and `t`
CompositeDatabase(records, t) ==
    [composites |-> DataFrame(records),
     criteria |-> t.criteria,
     emg_classification |-> t.emg_based_classification,
     bushan_classification |-> t.bushan_classification,
     twes2_classification |-> t.twes2_classification]

\* df[mask], the rows the mask keeps in order, is SelectSeq(df, mask).

\* The hard caps of the article rules, in the model's units
ArticleShrinkageMax == 30   \* 3.0 %
ArticleFillerMin == 20      \* 20.0 %
FillerOptimalMax == 55      \* 55.0 %

\* OcclusalStage without the suitable_for_occlusal comparison
OcclusalStage_NoSuitable(d, df) ==
    LET required == d.criteria.for_occlusal_restorations.required
        excluded == d.criteria.for_occlusal_restorations.excluded_categories
        df1 == SelectSeq(df, LAMBDA r : r.viscosity = required.viscosity)
        df2 == SelectSeq(df1, LAMBDA r : r.polymerization_shrinkage_percent
                         <= required.polymerization_shrinkage_percent_max)
        df3 == SelectSeq(df2, LAMBDA r : r.microhardness_KHN
                         >= required.microhardness_KHN_min)
        df5 == SelectSeq(df3, LAMBDA r : r.requires_capping
                         = required.requires_capping)
    IN  SelectSeq(df5, LAMBDA r : r.category \notin excluded)

\* Stage 1, `if for_occlusal:`
OcclusalStage(d, df) ==
    LET required == d.criteria.for_occlusal_restorations.required
        excluded == d.criteria.for_occlusal_restorations.excluded_categories
        df1 == SelectSeq(df, LAMBDA r : r.viscosity = required.viscosity)
        df2 == SelectSeq(df1, LAMBDA r : r.polymerization_shrinkage_percent
                         <= required.polymerization_shrinkage_percent_max)
        df3 == SelectSeq(df2, LAMBDA r : r.microhardness_KHN
                         >= required.microhardness_KHN_min)
        df4 == SelectSeq(df3, LAMBDA r : r.suitable_for_occlusal
                         = required.suitable_for_occlusal)
        df5 == SelectSeq(df4, LAMBDA r : r.requires_capping
                         = required.requires_capping)
    IN  SelectSeq(df5, LAMBDA r : r.category \notin excluded)

\* ArticleRulesStage that tags filler_optimal and never applies the floor
ArticleRulesStage_NoFloor(df) ==
    LET df1 == SelectSeq(df, LAMBDA r : r.polymerization_shrinkage_percent
                        <= ArticleShrinkageMax)
    IN  [i \in 1..Len(df1) |->
            [df1[i] EXCEPT !.filler_optimal =
                Some(df1[i].filler_content_percent >= ArticleFillerMin
                     /\ df1[i].filler_content_percent < FillerOptimalMax)]]

\* Stage 2, `if use_article_rules:`: the shrinkage cap, the filler_optimal
\* column, the filler floor
ArticleRulesStage(df) ==
    LET df1 == SelectSeq(df, LAMBDA r : r.polymerization_shrinkage_percent
                        <= ArticleShrinkageMax)
        df2 == [i \in 1..Len(df1) |->
                   [df1[i] EXCEPT !.filler_optimal =
                       Some(df1[i].filler_content_percent >= ArticleFillerMin
                            /\ df1[i].filler_content_percent
                                   < FillerOptimalMax)]]
    IN  SelectSeq(df2, LAMBDA r : r.filler_content_percent >= ArticleFillerMin)

\* Stage 3, `if has_occlusion_anomaly:`
AnomalyStage(d, df) ==
    LET additional == d.criteria.for_patients_with_occlusion_anomalies
                          .additional_requirements
        df1 == SelectSeq(df, LAMBDA r : r.wear_resistance \in {"high", "very_high"})
        df2 == SelectSeq(df1, LAMBDA r : r.microhardness_KHN
                         >= additional.microhardness_KHN_min)
    IN  SelectSeq(df2, LAMBDA r : r.polymerization_shrinkage_percent
                      <= additional.polymerization_shrinkage_percent_max)

\* The defaults of criteria.get(...) in the TWES / Bushan branches
DefaultMicrohardnessMin == 50
DefaultFillerMin == 60

\* RecordStage that compares hardness with the default, not the record's
RecordStage_DefaultHardness(criteria, df) ==
    LET recommended_wear == Get(criteria, "recommended_wear_resistance",
                                "high")
        min_filler == Get(criteria, "recommended_filler_min",
                          DefaultFillerMin)
        df1 == SelectSeq(df, LAMBDA r :
                    r.microhardness_KHN >= DefaultMicrohardnessMin)
        df2 == IF recommended_wear = "very_high"
               THEN SelectSeq(df1, LAMBDA r :
                         r.wear_resistance \in {"very_high", "high"})
               ELSE SelectSeq(df1, LAMBDA r :
                         r.wear_resistance \in {"high", "very_high", "medium"})
    IN  SelectSeq(df2, LAMBDA r : r.filler_content_percent >= min_filler)

\* The body shared by the TWES and the Bushan branch: the record's
\* hardness minimum, wear-resistance set and filler minimum
RecordStage(criteria, df) ==
    LET min_hardness == Get(criteria, "recommended_microhardness_min",
                            DefaultMicrohardnessMin)
        recommended_wear == Get(criteria, "recommended_wear_resistance",
                                "high")
        min_filler == Get(criteria, "recommended_filler_min",
                          DefaultFillerMin)
        df1 == SelectSeq(df, LAMBDA r : r.microhardness_KHN >= min_hardness)
        df2 == IF recommended_wear = "very_high"
               THEN SelectSeq(df1, LAMBDA r :
                         r.wear_resistance \in {"very_high", "high"})
               ELSE SelectSeq(df1, LAMBDA r :
                         r.wear_resistance \in {"high", "very_high", "medium"})
    IN  SelectSeq(df2, LAMBDA r : r.filler_content_percent >= min_filler)

\* Lookup with table[field].get(key, {}): a key without a record selects
\* an empty record
Lookup_EmptyRecord(table, field, key) ==
    IF DOMAIN table # {} /\ field \in DOMAIN table
    THEN IF key \in DOMAIN table[field]
         THEN Some(table[field][key]) ELSE Some(EmptyDict)
    ELSE None

\* The table lookup of a branch: the record of `key` in table[field], or
\* None when the table is empty, has no such field or no such key
Lookup(table, field, key) ==
    IF DOMAIN table # {} /\ field \in DOMAIN table
       /\ key \in DOMAIN table[field]
    THEN Some(table[field][key]) ELSE None

\* Stage 4, `if wear_severity:`, for a truthy wear_severity string ws
WearSeverityStage(d, df, ws) ==
    IF StartsWith(ws, "twes_") THEN
        LET rec == Lookup(d.twes2_classification, "grades",
                          Replace(ws, "twes_"))
        IN  IF rec # None THEN RecordStage(rec[1], df) ELSE df
    ELSE IF StartsWith(ws, "bushan_") THEN
        LET rec == Lookup(d.bushan_classification, "degrees",
                          Replace(ws, "bushan_"))
        IN  IF rec # None THEN RecordStage(rec[1], df) ELSE df
    ELSE IF ws \in {<<"none">>, <<"mild">>} THEN
        LET criteria == d.emg_classification.wear_severity_none_mild
        IN  SelectSeq(df, LAMBDA r : r.microhardness_KHN
                         >= criteria.recommended_microhardness_min)
    ELSE IF ws \in {<<"moderate">>, <<"severe">>} THEN
        LET criteria == d.emg_classification.wear_severity_moderate_severe
            df1 == SelectSeq(df, LAMBDA r : r.microhardness_KHN
                             >= criteria.recommended_microhardness_min)
        IN  SelectSeq(df1, LAMBDA r : r.wear_resistance
                          \in {criteria.recommended_wear_resistance, "high"})
    ELSE df

\* The "all" entry of a filter list (the Cyrillic word for "all" in the code)
All == "All"

\* ExtraFilters that applies every list and threshold that is not None
ExtraFilters_Supplied(df, a) ==
    LET df1 == IF a.region_filter # None
               THEN SelectSeq(df, LAMBDA r : r.region \in a.region_filter[1])
               ELSE df
        df2 == IF a.manufacturer_filter # None
               THEN SelectSeq(df1, LAMBDA r :
                         r.manufacturer \in a.manufacturer_filter[1])
               ELSE df1
        df3 == IF a.year_min # None
               THEN SelectSeq(df2, LAMBDA r : r.year_released >= a.year_min[1])
               ELSE df2
    IN  IF a.price_max # None
        THEN SelectSeq(df3, LAMBDA r : r.price_rub <= a.price_max[1])
        ELSE df3

\* Stage 5: the region / manufacturer / year / price filters.  Every
\* catalog of the model has the year_released and price_rub columns.
ExtraFilters(df, a) ==
    LET df1 == IF TruthyList(a.region_filter)
                  /\ All \notin a.region_filter[1]
               THEN SelectSeq(df, LAMBDA r : r.region \in a.region_filter[1])
               ELSE df
        df2 == IF TruthyList(a.manufacturer_filter)
                  /\ All \notin a.manufacturer_filter[1]
               THEN SelectSeq(df1, LAMBDA r :
                         r.manufacturer \in a.manufacturer_filter[1])
               ELSE df1
        df3 == IF TruthyNum(a.year_min)
               THEN SelectSeq(df2, LAMBDA r : r.year_released >= a.year_min[1])
               ELSE df2
    IN  IF TruthyNum(a.price_max)
        THEN SelectSeq(df3, LAMBDA r : r.price_rub <= a.price_max[1])
        ELSE df3

\* CompositeDatabase.filter_composites(**a) on database d
filter_composites(d, a) ==
    LET df0 == d.composites
        df1 == IF a.for_occlusal THEN OcclusalStage(d, df0) ELSE df0
        df2 == IF a.use_article_rules THEN ArticleRulesStage(df1) ELSE df1
        df3 == IF a.has_occlusion_anomaly THEN AnomalyStage(d, df2) ELSE df2
        df4 == IF TruthyStr(a.wear_severity)
               THEN WearSeverityStage(d, df3, a.wear_severity[1]) ELSE df3
    IN  ExtraFilters(df4, a)

\* self.composites after a filter_composites call that tags the catalog
\* itself (self.composites['filler_optimal'] = ...) instead of its copy
composites_after_filter_inplace(d, a) ==
    IF a.use_article_rules
    THEN [i \in DOMAIN d.composites |->
             [d.composites[i] EXCEPT !.filler_optimal =
                 Some(/\ d.composites[i].filler_content_percent
                             >= ArticleFillerMin
                      /\ d.composites[i].filler_content_percent
                             < FillerOptimalMax)]]
    ELSE d.composites

\* self.composites after a filter_composites call: the method works on
\* df = self.composites.copy() and on the frames df[mask] made from it; no
\* statement assigns to self.composites or to a column of it
composites_after_filter(d, a) == d.composites

----------------------------------------------------------------------------
(* Scoring *)

\* create_emg_features: the one feature the scoring reads, the chewing
\* asymmetry of the masseter, abs(right - left) of the raw amplitudes
create_emg_features(emg_dict) ==
    LET diff == emg_dict.masseter_right_chewing
                - emg_dict.masseter_left_chewing
    IN  [masseter_asymmetry_chewing |-> IF diff >= 0 THEN diff ELSE -diff]

\* A score s of the code is the integer s * ScoreUnit(d): every weight, map
\* value and quotient of calculate_composite_score is a whole number of
\* 1 / (2000 * max_hardness * max_shrinkage)
max_hardness(d) ==
    SeqMax([i \in DOMAIN d.composites |->
               d.composites[i].microhardness_KHN])
max_shrinkage(d) ==
    SeqMax([i \in DOMAIN d.composites |->
               d.composites[i].polymerization_shrinkage_percent])
ScoreUnit(d) == 2000 * max_hardness(d) * max_shrinkage(d)

\* wear_map.get(wear_resistance, 0.5), in tenths
wear_score(composite) ==
    CASE composite.wear_resistance = "low" -> 3
      [] composite.wear_resistance = "medium" -> 6
      [] composite.wear_resistance = "high" -> 9
      [] composite.wear_resistance = "very_high" -> 10
      [] OTHER -> 5

\* filler_score with `55 < filler` for `55 <= filler`, in twentieths
filler_score_open(filler) ==
    IF 20 <= filler /\ filler < 55 THEN 20
    ELSE IF filler < 20 THEN filler
    ELSE IF 55 < filler /\ filler <= 70 THEN 16
    ELSE IF 70 < filler /\ filler <= 85 THEN 12
    ELSE 8

\* filler_score, in twentieths
filler_score(filler) ==
    IF 20 <= filler /\ filler < 55 THEN 20
    ELSE IF filler < 20 THEN filler
    ELSE IF 55 <= filler /\ filler <= 70 THEN 16
    ELSE IF 70 < filler /\ filler <= 85 THEN 12
    ELSE 8

\* the bonus added to the score inside the optimal filler band, in
\* hundredths: 0.15 in [25,50), 0.10 in the rest of [20,55)
filler_bonus(filler) ==
    IF 20 <= filler /\ filler < 55
    THEN (IF 25 <= filler /\ filler < 50 THEN 15 ELSE 10)
    ELSE 0

\* depth_score, in five-hundredths: depth_of_cure_mm / 5.0 for the bulk
\* fill categories (depth in tenths of a millimetre), 0.7 for the others
depth_score(composite) ==
    IF composite.category
           \in {"high_viscosity_bulk_fill", "low_viscosity_bulk_fill"}
    THEN composite.depth_of_cure_mm * 10
    ELSE 350

\* hardness_score computed with Python's floor division, // for /
hardness_term_floordiv(d, composite) ==
    (composite.microhardness_KHN \div max_hardness(d)) * ScoreUnit(d)

\* hardness_score = microhardness_KHN / max_hardness, times ScoreUnit
hardness_term(d, composite) ==
    composite.microhardness_KHN * max_shrinkage(d) * 2000

\* CompositeDatabase.calculate_composite_score, times ScoreUnit(d)
calculate_composite_score(d, composite, emg_features, patient_data) ==
    LET unit == ScoreUnit(d)
        hardness == hardness_term(d, composite)
        wear == wear_score(composite) * (unit \div 10)
        shrinkage ==
            (max_shrinkage(d) - composite.polymerization_shrinkage_percent)
                * max_hardness(d) * 2000
        filler == filler_score(composite.filler_content_percent)
                      * (unit \div 20)
        depth == depth_score(composite) * (unit \div 500)
        base == (30 * hardness + 25 * wear + 20 * shrinkage
                 + 15 * filler + 10 * depth) \div 100
        bonus == filler_bonus(composite.filler_content_percent)
                     * (unit \div 100)
        asymmetry ==
            IF "masseter_asymmetry_chewing" \in DOMAIN emg_features
               /\ emg_features.masseter_asymmetry_chewing > 20
            THEN (10 * hardness) \div 100 ELSE 0
        hyperfunction ==
            IF TruthyNum(patient_data.mvc_hyperfunction_percent)
               /\ patient_data.mvc_hyperfunction_percent[1] > 20
               /\ TruthyNum(patient_data.mvc_duration_sec_per_min)
               /\ patient_data.mvc_duration_sec_per_min[1] >= 4
            THEN (15 * wear) \div 100 ELSE 0
    IN  base + bonus + asymmetry + hyperfunction

----------------------------------------------------------------------------
(* CompositeSelector *)

\* _classify_wear_severity with the gap between the two duration bands
\* closed (mild up to a duration of 3)
classify_wear_severity_no_gap(patient_data) ==
    IF TruthyStr(patient_data.wear_severity) THEN patient_data.wear_severity
    ELSE IF TruthyNum(patient_data.mvc_hyperfunction_percent)
            /\ patient_data.mvc_hyperfunction_percent[1] > 20
            /\ TruthyNum(patient_data.mvc_duration_sec_per_min)
         THEN IF 1 <= patient_data.mvc_duration_sec_per_min[1]
                 /\ patient_data.mvc_duration_sec_per_min[1] <= 3
              THEN Some(<<"mild">>)
              ELSE IF 4 <= patient_data.mvc_duration_sec_per_min[1]
                      /\ patient_data.mvc_duration_sec_per_min[1] <= 6
                   THEN Some(<<"moderate">>)
                   ELSE None
    ELSE None

\* CompositeSelector._classify_wear_severity
classify_wear_severity(patient_data) ==
    IF TruthyStr(patient_data.wear_severity) THEN patient_data.wear_severity
    ELSE IF TruthyNum(patient_data.mvc_hyperfunction_percent)
            /\ patient_data.mvc_hyperfunction_percent[1] > 20
            /\ TruthyNum(patient_data.mvc_duration_sec_per_min)
         THEN IF 1 <= patient_data.mvc_duration_sec_per_min[1]
                 /\ patient_data.mvc_duration_sec_per_min[1] <= 2
              THEN Some(<<"mild">>)
              ELSE IF 4 <= patient_data.mvc_duration_sec_per_min[1]
                      /\ patient_data.mvc_duration_sec_per_min[1] <= 6
                   THEN Some(<<"moderate">>)
                   ELSE None
    ELSE None

\* CompositeSelector._generate_justification: the fields that carry data
\* (reasons, notes and priority_note are display text)
generate_justification(composite, score, is_priority) ==
    [score |-> score, category |-> composite.category,
     is_priority |-> is_priority,
     filler_content |-> composite.filler_content_percent]

\* The priority band taken as the articles' strict 25-50 %
priority_composites_strict(filt) ==
    SelectSeq(filt, LAMBDA r : r.filler_content_percent >= 25
                               /\ r.filler_content_percent < 50)

\* priority_composites: the rows with filler in [20, 55)
priority_composites(filt) ==
    SelectSeq(filt, LAMBDA r : r.filler_content_percent >= ArticleFillerMin
                               /\ r.filler_content_percent < FillerOptimalMax)

\* alternative_composites: the rows with filler >= 55, or an empty frame
alternative_composites(filt, include_alternatives) ==
    IF include_alternatives
    THEN SelectSeq(filt, LAMBDA r :
                   r.filler_content_percent >= FillerOptimalMax)
    ELSE <<>>

\* The loop over frame.iterrows(): one (composite, score, justification)
\* per row, in row order
score_rows(d, frame, emg_features, patient_data, is_priority) ==
    [i \in DOMAIN frame |->
        LET score == calculate_composite_score(d, frame[i], emg_features,
                                               patient_data)
        IN  [composite |-> frame[i], score |-> score,
             justification |->
                 generate_justification(frame[i], score, is_priority)]]

\* The place of x in a list sorted by descending score, entered before
\* its equals: what sort() followed by reverse() would do with ties
insert_before_equals(sorted, x) ==
    LET before == {i \in DOMAIN sorted : sorted[i].score > x.score}
        k == Cardinality(before)
    IN  SubSeq(sorted, 1, k) \o <<x>> \o SubSeq(sorted, k + 1, Len(sorted))

\* The place of x in a list sorted by descending score, after its equals
insert_sorted(sorted, x) ==
    LET before == {i \in DOMAIN sorted : sorted[i].score >= x.score}
        k == Cardinality(before)
    IN  SubSeq(sorted, 1, k) \o <<x>> \o SubSeq(sorted, k + 1, Len(sorted))

\* results.sort(key=lambda x: x[1], reverse=True): Python's sort is stable,
\* and stays so with reverse=True
RECURSIVE sort_by_score(_)
sort_by_score(results) ==
    IF results = <<>> THEN <<>>
    ELSE insert_sorted(sort_by_score(SubSeq(results, 1, Len(results) - 1)),
                       results[Len(results)])

\* The two tiers joined and sorted as one list
all_results_by_score(priority, alternative) ==
    sort_by_score(priority \o alternative)

\* all_results = priority_results + alternative_results
all_results(priority, alternative) == priority \o alternative

\* all_results[:top_n] cut one entry short
top_n_short(results, top_n) == Slice(results, top_n - 1)

\* return all_results[:top_n]
top_n_results(results, top_n) == Slice(results, top_n)

\* The arguments select_composite calls filter_composites with
select_filter_args(patient_data) ==
    [for_occlusal |-> TRUE,
     has_occlusion_anomaly |-> patient_data.occlusion_anomaly_type # None,
     wear_severity |-> classify_wear_severity(patient_data),
     use_article_rules |-> TRUE,
     region_filter |-> None, manufacturer_filter |-> None,
     year_min |-> None, price_max |-> None]

\* select_composite that, on an empty filter result, filters once more
\* without the wear-severity stage
select_composite_retry(d, patient_data, top_n, include_alternatives) ==
    LET strict == filter_composites(d, select_filter_args(patient_data))
        filt == IF strict = <<>>
                THEN filter_composites(d,
                         [select_filter_args(patient_data)
                              EXCEPT !.wear_severity = None])
                ELSE strict
        emg_features == create_emg_features(patient_data)
        priority == sort_by_score(
            score_rows(d, priority_composites(filt), emg_features,
                       patient_data, TRUE))
        alternative == sort_by_score(
            score_rows(d, alternative_composites(filt, include_alternatives),
                       emg_features, patient_data, FALSE))
    IN  IF filt = <<>>
        THEN [filtered |-> filt, priority_results |-> <<>>,
              alternative_results |-> <<>>, ret |-> <<>>]
        ELSE [filtered |-> filt, priority_results |-> priority,
              alternative_results |-> alternative,
              ret |-> top_n_results(all_results(priority, alternative),
                                    top_n)]

\* CompositeSelector.select_composite: its locals at the return
select_composite(d, patient_data, top_n, include_alternatives) ==
    LET filt == filter_composites(d, select_filter_args(patient_data))
        emg_features == create_emg_features(patient_data)
        priority == sort_by_score(
            score_rows(d, priority_composites(filt), emg_features,
                       patient_data, TRUE))
        alternative == sort_by_score(
            score_rows(d, alternative_composites(filt, include_alternatives),
                       emg_features, patient_data, FALSE))
    IN  IF filt = <<>>
        THEN [filtered |-> filt, priority_results |-> <<>>,
              alternative_results |-> <<>>, ret |-> <<>>]
        ELSE [filtered |-> filt, priority_results |-> priority,
              alternative_results |-> alternative,
              ret |-> top_n_results(all_results(priority, alternative),
                                    top_n)]

----------------------------------------------------------------------------
(* Bounds and input sets *)

\* The longest catalog of the filter and of the selection specification
MaxFilterCatalog == 2
MaxSelectCatalog == 3

\* Sequences of 1..n distinct elements of S, in ascending or in descending
\* order
MonotoneSeqs(S, n) ==
    {s \in UNION {[1..k -> S] : k \in 1..n} :
        \/ \A i, j \in DOMAIN s : i < j => s[i] < s[j]
        \/ \A i, j \in DOMAIN s : i < j => s[i] > s[j]}

\* The catalogs made of the Pool records numbered in `idxs`, in the Pool's
\* order or in the reverse order
Catalogs(idxs, n) ==
    {[i \in DOMAIN s |-> Pool[s[i]]] : s \in MonotoneSeqs(idxs, n)}

\* The Pool records of the filter specification: all but the twins 4 and 6
FilterPool == DOMAIN Pool \ {4, 6}

\* The Pool records of the selection specification: two pairs of twins with
\* equal scores (1 and 4 in the band, 5 and 6 above it), a softer and a weak
\* in-band material (3, 8), and one below the filler floor (9)
SelectPool == {1, 3, 4, 5, 6, 8, 9}

WearSeverities ==
    {None, Some(<<>>), Some(<<"mild">>), Some(<<"severe">>),
     Some(<<"bushan_", "III">>),
     Some(<<"twes_", "2">>), Some(<<"twes_", "3">>), Some(<<"twes_", "4">>),
     Some(<<"twes_", "9">>), Some(<<"worn">>)}

ExtraFilterArgs ==
    {[region_filter |-> None, manufacturer_filter |-> None,
      year_min |-> None, price_max |-> None],
     [region_filter |-> Some({"RU"}), manufacturer_filter |-> Some({All}),
      year_min |-> Some(0), price_max |-> Some(0)],
     [region_filter |-> Some({All, "RU"}),
      manufacturer_filter |-> Some({"M1", "M3"}),
      year_min |-> Some(2015), price_max |-> None],
     [region_filter |-> Some({}), manufacturer_filter |-> Some({}),
      year_min |-> None, price_max |-> Some(3000)]}

FilterArgs ==
    {[for_occlusal |-> o, has_occlusion_anomaly |-> h, wear_severity |-> w,
      use_article_rules |-> u, region_filter |-> x.region_filter,
      manufacturer_filter |-> x.manufacturer_filter,
      year_min |-> x.year_min, price_max |-> x.price_max] :
        o \in BOOLEAN, h \in BOOLEAN, w \in WearSeverities, u \in BOOLEAN,
        x \in ExtraFilterArgs}

----------------------------------------------------------------------------
(* State *)

NoCall == [op |-> "none", args |-> <<>>]
NoTrainRet == [status |-> "none"]
NoResult == [status |-> "none"]

\* CompositeModelTrainer.__init__: no model, an unfitted scaler, no names
TrainerInit ==
    /\ model = None
    /\ scaler = [fitted_by |-> 0]
    /\ feature_names = <<>>
    /\ train_calls = 0
    /\ train_ret = NoTrainRet
    /\ saved = None
    /\ completed = FALSE

CallerInit ==
    /\ call = NoCall
    /\ filtered = <<>>
    /\ priority_results = <<>>
    /\ alternative_results = <<>>
    /\ ret = <<>>
    /\ score_calls = <<>>
    /\ result = NoResult

\* EMGNormalizer() with the default reference apparatus, and a new
\* ClinicalDataExtractor
ToolInit ==
    /\ normalizer = [reference_apparatus |-> "Synapsys"]
    /\ extracted_pairs = <<>>

\* The state after CompositeDatabase(json_path) for a catalog file
InitFilter ==
    /\ \E records \in Catalogs(FilterPool, MaxFilterCatalog), t \in Tables :
           db = CompositeDatabase(records, t)
    /\ CallerInit
    /\ TrainerInit
    /\ ToolInit

\* db.filter_composites(**a)
FilterComposites(a) ==
    /\ call.op = "none"
    /\ call' = [op |-> "filter_composites", args |-> a]
    /\ filtered' = filter_composites(db, a)
    /\ db' = [db EXCEPT !.composites = composites_after_filter(db, a)]
    /\ UNCHANGED <<priority_results, alternative_results, ret, score_calls>>
    /\ UNCHANGED trainerVars
    /\ UNCHANGED toolVars

\* The caller has read the result of the last call and is ready for the next
Return ==
    /\ call.op # "none"
    /\ call' = NoCall
    /\ filtered' = <<>>
    /\ priority_results' = <<>>
    /\ alternative_results' = <<>>
    /\ ret' = <<>>
    /\ train_ret' = NoTrainRet
    /\ result' = NoResult
    /\ UNCHANGED <<db, score_calls, model, scaler, feature_names,
                   train_calls, saved, completed, normalizer,
                   extracted_pairs>>

NextFilter ==
    \/ \E a \in FilterArgs : FilterComposites(a)
    \/ Return

SpecFilter == InitFilter /\ [][NextFilter]_vars

----------------------------------------------------------------------------
(* Claims about filter_composites, checked under SpecFilter *)

Rows(df) == {df[i] : i \in DOMAIN df}
Names(df) == {df[i].name : i \in DOMAIN df}
FilterCalled == call.op = "filter_composites"

\* The call applies the article rules and no other stage
OnlyArticleRules ==
    /\ call.args.use_article_rules
    /\ ~call.args.for_occlusal
    /\ ~call.args.has_occlusion_anomaly
    /\ call.args.wear_severity = None
    /\ call.args.region_filter = None
    /\ call.args.manufacturer_filter = None
    /\ call.args.year_min = None
    /\ call.args.price_max = None

\* C1: every composite filter_composites returns with use_article_rules =
\* true has shrinkage <= 3.0 % and filler content >= 20 %, whatever the
\* catalog and the other arguments; and when the article rules are the only
\* stage applied, every catalog composite within the two limits is returned
\* (a composite with shrinkage 2.0 and filler 30 is, its twin with shrinkage
\* 4.0 is not).
C1_ArticleRulesCaps ==
    (FilterCalled /\ call.args.use_article_rules) =>
        /\ \A r \in Rows(filtered) :
               /\ r.polymerization_shrinkage_percent <= 30
               /\ r.filler_content_percent >= 20
        /\ OnlyArticleRules =>
               \A c \in Rows(db.composites) :
                   (c.polymerization_shrinkage_percent <= 30
                    /\ c.filler_content_percent >= 20)
                       => c.name \in Names(filtered)

\* Scenario A: the catalog holds C1 (shrinkage 2.0) and C2 (shrinkage 4.0),
\* the article rules are applied with the occlusal stage, C1 alone comes back
C1_Witness ==
    /\ FilterCalled
    /\ call.args.use_article_rules
    /\ call.args.for_occlusal
    /\ Names(db.composites) = {"C1", "C2"}
    /\ Names(filtered) = {"C1"}

\* C2: every composite filter_composites returns with for_occlusal = true
\* has shrinkage <= the configured required maximum, microhardness >= the
\* configured required minimum, suitable_for_occlusal = true, the required
\* viscosity, requires_capping = false and a category outside the excluded
\* set.
C2_OcclusalRequirements ==
    (FilterCalled /\ call.args.for_occlusal) =>
        LET required == db.criteria.for_occlusal_restorations.required
            excluded ==
                db.criteria.for_occlusal_restorations.excluded_categories
        IN  \A r \in Rows(filtered) :
                /\ r.polymerization_shrinkage_percent
                       <= required.polymerization_shrinkage_percent_max
                /\ r.microhardness_KHN >= required.microhardness_KHN_min
                /\ r.suitable_for_occlusal = TRUE
                /\ r.viscosity = required.viscosity
                /\ r.requires_capping = FALSE
                /\ r.category \notin excluded

\* An occlusal call that keeps one composite and drops one that is not
\* suitable for occlusal restorations
C2_Witness ==
    /\ FilterCalled
    /\ call.args.for_occlusal
    /\ ~call.args.use_article_rules
    /\ Names(db.composites) = {"C10", "C8"}
    /\ Names(filtered) = {"C8"}

\* The record a wear-severity code selects in the classification tables:
\* twes_<grade> in twes2_classification.grades, bushan_<degree> in
\* bushan_classification.degrees; None when there is no such record
SelectedRecord(d, w) ==
    IF w = None \/ Len(w[1]) # 2 THEN None
    ELSE IF w[1][1] = "twes_" /\ "grades" \in DOMAIN d.twes2_classification
            /\ <<w[1][2]>> \in DOMAIN d.twes2_classification.grades
         THEN Some(d.twes2_classification.grades[<<w[1][2]>>])
    ELSE IF w[1][1] = "bushan_"
            /\ "degrees" \in DOMAIN d.bushan_classification
            /\ <<w[1][2]>> \in DOMAIN d.bushan_classification.degrees
         THEN Some(d.bushan_classification.degrees[<<w[1][2]>>])
    ELSE None

\* C3: when wear_severity is a twes_<grade> or bushan_<degree> code whose
\* record exists, every returned composite has microhardness >= the
\* record's recommended_microhardness_min, filler >= the record's
\* recommended_filler_min, and wear_resistance in {very_high, high} if the
\* record recommends very_high, else in {high, very_high, medium}.  (A
\* record that leaves a minimum out gets the code's default, 50 KHN and
\* 60 %, and "high" as its recommendation.)
C3_WearRecordRequirements ==
    (FilterCalled /\ SelectedRecord(db, call.args.wear_severity) # None) =>
        LET rec == SelectedRecord(db, call.args.wear_severity)[1]
            min_hardness == IF "recommended_microhardness_min" \in DOMAIN rec
                            THEN rec.recommended_microhardness_min ELSE 50
            min_filler == IF "recommended_filler_min" \in DOMAIN rec
                          THEN rec.recommended_filler_min ELSE 60
            very_high == "recommended_wear_resistance" \in DOMAIN rec
                         /\ rec.recommended_wear_resistance = "very_high"
        IN  \A r \in Rows(filtered) :
                /\ r.microhardness_KHN >= min_hardness
                /\ r.filler_content_percent >= min_filler
                /\ very_high => r.wear_resistance \in {"very_high", "high"}
                /\ ~very_high =>
                       r.wear_resistance \in {"high", "very_high", "medium"}

\* Scenario B: Bushan degree III asks for hardness 70; C7 (hardness 65)
\* passes every other stage and is dropped, C5 (hardness 90) is returned
C3_Witness ==
    /\ FilterCalled
    /\ call.args.wear_severity = Some(<<"bushan_", "III">>)
    /\ SelectedRecord(db, call.args.wear_severity) # None
    /\ SelectedRecord(db, call.args.wear_severity)[1]
           .recommended_microhardness_min = 70
    /\ call.args.for_occlusal /\ call.args.use_article_rules
    /\ Names(db.composites) = {"C5", "C7"}
    /\ Names(filtered) = {"C5"}
    /\ \E r \in Rows(db.composites) : r.microhardness_KHN = 65

----------------------------------------------------------------------------
(* The selection specification *)

TopNs == {-1, 0, 1, 2, 3, 5}

\* PatientData: the fields select_composite and the scoring read
Patients ==
    {[masseter_right_chewing |-> 350, masseter_left_chewing |-> l,
      occlusion_anomaly_type |-> o, wear_severity |-> w,
      mvc_hyperfunction_percent |-> h[1],
      mvc_duration_sec_per_min |-> h[2]] :
        l \in {340, 300},
        o \in {None, Some("crossbite")},
        w \in {None, Some(<<"bushan_", "III">>)},
        h \in {<<None, None>>, <<Some(25), Some(1)>>, <<Some(25), Some(5)>>}}

InitSelect ==
    /\ \E records \in Catalogs(SelectPool, MaxSelectCatalog), t \in Tables :
           db = CompositeDatabase(records, t)
    /\ CallerInit
    /\ TrainerInit
    /\ ToolInit

\* selector.select_composite(patient_data, top_n, include_alternatives)
SelectComposite(patient_data, top_n, include_alternatives) ==
    /\ call.op = "none"
    /\ call' = [op |-> "select_composite",
                args |-> [patient_data |-> patient_data, top_n |-> top_n,
                          include_alternatives |-> include_alternatives]]
    /\ LET r == select_composite(db, patient_data, top_n,
                                 include_alternatives)
       IN  /\ filtered' = r.filtered
           /\ priority_results' = r.priority_results
           /\ alternative_results' = r.alternative_results
           /\ ret' = r.ret
    /\ db' = [db EXCEPT !.composites =
                  composites_after_filter(db,
                                          select_filter_args(patient_data))]
    /\ UNCHANGED score_calls
    /\ UNCHANGED trainerVars
    /\ UNCHANGED toolVars

NextSelect ==
    \/ \E p \in Patients, n \in TopNs, b \in BOOLEAN :
           SelectComposite(p, n, b)
    \/ Return

SpecSelect == InitSelect /\ [][NextSelect]_vars

----------------------------------------------------------------------------
(* Claims about select_composite, checked under SpecSelect *)

SelectCalled == call.op = "select_composite"
InBand(filler) == 20 <= filler /\ filler < 55
Min(a, b) == IF a <= b THEN a ELSE b

\* How often the catalog row with index label idx occurs in a result list
Occurrences(results, idx) ==
    Cardinality({i \in DOMAIN results : results[i].composite.idx = idx})

\* The numbers of priority and of alternative candidates after filtering
CountP == Cardinality({i \in DOMAIN filtered :
                          InBand(filtered[i].filler_content_percent)})
CountA == Cardinality({i \in DOMAIN filtered :
                          filtered[i].filler_content_percent >= 55})

C5_PriorityFirst ==
    SelectCalled =>
        \A i, j \in DOMAIN ret :
            (i < j) =>
                ~(/\ ~ret[i].justification.is_priority
                  /\ ret[j].justification.is_priority)

\* A priority entry is returned ahead of an alternative entry that scores
\* higher
C5_Witness ==
    /\ SelectCalled
    /\ \E i, j \in DOMAIN ret :
           /\ i < j
           /\ ret[i].justification.is_priority
           /\ ~ret[j].justification.is_priority
           /\ ret[j].score > ret[i].score

\* Descending by score
SortedByScore(results) ==
    \A i, j \in DOMAIN results : (i < j) => results[i].score >= results[j].score

\* C6, as claimed, on the calls whose top_n is a count: select_composite
\* returns exactly min(top_n, P + A) entries, P and A the numbers of
\* priority and alternative candidates after filtering, and they are the
\* first top_n entries of the sorted priority tier followed by the sorted
\* alternative tier.
C6_Original ==
    (SelectCalled /\ call.args.top_n >= 0) =>
        /\ Len(ret) = Min(call.args.top_n, CountP + CountA)
        /\ ret = SubSeq(priority_results \o alternative_results, 1, Len(ret))
        /\ SortedByScore(priority_results)
        /\ SortedByScore(alternative_results)

\* C6, amended: for top_n >= 0 select_composite returns exactly
\* min(top_n, P + A) entries, where P is the number of priority candidates
\* after filtering and A the number of alternative candidates when
\* include_alternatives is true and 0 when it is false; they are the first
\* entries of the priority tier sorted by descending score followed by the
\* alternative tier sorted by descending score.
C6_TopNOfTiers ==
    (SelectCalled /\ call.args.top_n >= 0) =>
        LET a == IF call.args.include_alternatives THEN CountA ELSE 0
        IN  /\ Len(ret) = Min(call.args.top_n, CountP + a)
            /\ Len(priority_results) = CountP
            /\ Len(alternative_results) = a
            /\ ret = SubSeq(priority_results \o alternative_results,
                            1, Len(ret))
            /\ SortedByScore(priority_results)
            /\ SortedByScore(alternative_results)

\* top_n = 2 with one priority and two alternative candidates: the priority
\* entry and the better (here: first) alternative entry come back
C6_Witness ==
    /\ SelectCalled
    /\ call.args.top_n = 2
    /\ call.args.include_alternatives
    /\ CountP = 1 /\ CountA = 2
    /\ Len(ret) = 2
    /\ ret[1].justification.is_priority
    /\ ~ret[2].justification.is_priority

\* C7: within each tier of the returned list scores are non-increasing,
\* and two entries of a tier with equal scores keep their catalog order.
C7_SortedStable ==
    SelectCalled =>
        \A i, j \in DOMAIN ret :
            (/\ i < j
             /\ ret[i].justification.is_priority
                    = ret[j].justification.is_priority) =>
                /\ ret[i].score >= ret[j].score
                /\ (ret[i].score = ret[j].score) =>
                       ret[i].composite.idx < ret[j].composite.idx

\* Two entries of one tier tie, and a third one of the tier scores lower
C7_Witness ==
    /\ SelectCalled
    /\ \E i, j, k \in DOMAIN ret :
           /\ i < j /\ j < k
           /\ ret[i].justification.is_priority
           /\ ret[j].justification.is_priority
           /\ ret[k].justification.is_priority
           /\ ret[i].score = ret[j].score
           /\ ret[j].score > ret[k].score

----------------------------------------------------------------------------
(* The scoring specification: calculate_composite_score applied to rows of *)
(* the catalog; score_calls keeps the last two calls and what they         *)
(* returned                                                                *)

MaxScoreCatalog == 3

\* Two pairs that differ in microhardness_KHN only (1 and 3, 5 and 7), and
\* one record for each remaining branch of the filler score (8, 9, 13)
ScorePool == {1, 3, 5, 7, 8, 9, 13}

\* emg_features: without the asymmetry entry, with a small and a large one
ScoreEmgFeatures ==
    {EmptyDict} \cup {[masseter_asymmetry_chewing |-> v] : v \in {10, 50}}

\* With and without the hyperfunction bonus
ScorePatients ==
    {p \in Patients : /\ p.masseter_left_chewing = 340
                      /\ p.occlusion_anomaly_type = None
                      /\ p.wear_severity = None
                      /\ p.mvc_duration_sec_per_min # Some(1)}

\* The catalog of a scoring call is never empty: the call is given a row
InitScore ==
    /\ \E records \in Catalogs(ScorePool, MaxScoreCatalog) \ {<<>>} :
           db = CompositeDatabase(records, TablesA)
    /\ CallerInit
    /\ TrainerInit
    /\ ToolInit

LastTwo(s) == IF Len(s) > 2 THEN SubSeq(s, Len(s) - 1, Len(s)) ELSE s

\* db.calculate_composite_score(composite, emg_features, patient_data)
CalculateCompositeScore(composite, emg_features, patient_data) ==
    /\ score_calls' =
           LastTwo(Append(score_calls,
               [composite |-> composite,
                emg_features |-> emg_features,
                patient_data |-> patient_data,
                score |-> calculate_composite_score(
                              db, composite, emg_features, patient_data)]))
    /\ UNCHANGED <<db, call, filtered, priority_results,
                   alternative_results, ret>>
    /\ UNCHANGED trainerVars
    /\ UNCHANGED toolVars

NextScore ==
    \E i \in DOMAIN db.composites, f \in ScoreEmgFeatures,
       p \in ScorePatients :
        CalculateCompositeScore(db.composites[i], f, p)

SpecScore == InitScore /\ [][NextScore]_vars

----------------------------------------------------------------------------
(* Claims about calculate_composite_score, checked under SpecScore *)

\* Two catalog rows that are equal in every attribute but
\* microhardness_KHN (and their identity: name and index label)
DifferOnlyInMicrohardness(a, b) ==
    /\ a.microhardness_KHN # b.microhardness_KHN
    /\ [a EXCEPT !.microhardness_KHN = 0, !.name = "", !.idx = 0]
           = [b EXCEPT !.microhardness_KHN = 0, !.name = "", !.idx = 0]

\* C8: for the same catalog, EMG features and patient data, of two
\* composites that differ only in microhardness_KHN the one with the
\* higher microhardness_KHN gets a strictly higher score.
C8_MonotoneMicrohardness ==
    \A i, j \in DOMAIN score_calls :
        (/\ score_calls[i].emg_features = score_calls[j].emg_features
         /\ score_calls[i].patient_data = score_calls[j].patient_data
         /\ DifferOnlyInMicrohardness(score_calls[i].composite,
                                      score_calls[j].composite)
         /\ score_calls[i].composite.microhardness_KHN
                < score_calls[j].composite.microhardness_KHN) =>
            score_calls[i].score < score_calls[j].score

\* The last two calls scored such a pair for one patient, the asymmetry
\* bonus applied, and the harder composite scored higher
C8_Witness ==
    /\ Len(score_calls) = 2
    /\ score_calls[1].emg_features = score_calls[2].emg_features
    /\ score_calls[1].patient_data = score_calls[2].patient_data
    /\ "masseter_asymmetry_chewing" \in DOMAIN score_calls[1].emg_features
    /\ score_calls[1].emg_features.masseter_asymmetry_chewing > 20
    /\ DifferOnlyInMicrohardness(score_calls[1].composite,
                                 score_calls[2].composite)
    /\ score_calls[1].composite.microhardness_KHN
           > score_calls[2].composite.microhardness_KHN
    /\ score_calls[1].score > score_calls[2].score

----------------------------------------------------------------------------
(* CompositeModelTrainer *)
(* Of its pairs train reads: whether the list is empty, which pairs have a *)
(* composite_name, how many of those there are, and how they spread over   *)
(* the names.  A list of pairs is therefore [controls, class_counts]: the  *)
(* number of pairs without a composite_name and, for every distinct        *)
(* composite_name, the number of pairs that carry it.                      *)

Pairs(controls, class_counts) ==
    [controls |-> controls, class_counts |-> class_counts]

RECURSIVE SeqSum(_)
SeqSum(s) == IF s = <<>> THEN 0 ELSE Head(s) + SeqSum(Tail(s))

SeqMin(s) == CHOOSE m \in {s[i] : i \in DOMAIN s} :
                 \A i \in DOMAIN s : m <= s[i]

\* len(pairs)
NumPairs(pairs) == pairs.controls + SeqSum(pairs.class_counts)

\* len(X) with valid_pairs = pairs, the pairs without a name kept
NumLabeled_Unfiltered(pairs) == pairs.controls + SeqSum(pairs.class_counts)

\* valid_pairs = [p for p in pairs if p.composite_name]; len(X)
NumLabeled(pairs) == SeqSum(pairs.class_counts)

\* len(y.unique())
NumClasses(pairs) == Len(pairs.class_counts)

\* feature_cols of prepare_training_data
feature_cols ==
    <<"masseter_right_chewing", "masseter_left_chewing",
      "temporalis_right_chewing", "temporalis_left_chewing",
      "masseter_right_max_clench", "masseter_left_max_clench",
      "temporalis_right_max_clench", "temporalis_left_max_clench",
      "masseter_avg_chewing", "temporalis_avg_chewing",
      "masseter_avg_max", "temporalis_avg_max",
      "age", "mvc_hyperfunction_percent">>

MinLabeled == 2
SplitAbove == 200
SplitMinClassCount == 5
EnsembleAbove == 50

\* The trainer's artifact
Artifact(m, sc, names) == [model |-> m, scaler |-> sc, feature_names |-> names]

\* What a call leaves behind: the artifact and what the caller gets, either
\* the metrics or the error raised (by the statement at source line `line`)
Raised(artifact, error, line) ==
    [artifact |-> artifact,
     ret |-> [status |-> "error", error |-> error, line |-> line]]
Returned(artifact, metrics) ==
    [artifact |-> artifact, ret |-> [status |-> "ok", metrics |-> metrics]]

\* train_test_split(X, y, test_size=0.1, stratify=y): the hold-out has
\* ceil(0.1 * n) examples, and the split is refused when that is fewer
\* than the number of classes
HoldOutSize(n) == (n + 9) \div 10
SplitRefused(pairs) == HoldOutSize(NumLabeled(pairs)) < NumClasses(pairs)

\* The branch of train that holds out a test set
SplitTaken(pairs) ==
    /\ NumLabeled(pairs) > SplitAbove
    /\ SeqMin(pairs.class_counts) >= SplitMinClassCount

\* len(X_test): the hold-out, or all of X when nothing is held out
TestSize(pairs) ==
    IF SplitTaken(pairs) THEN HoldOutSize(NumLabeled(pairs))
    ELSE NumLabeled(pairs)

ModelTypes == {"random_forest", "gradient_boosting"}

\* base_model.fit: a gradient boosting classifier refuses labels of a
\* single class, a random forest accepts them
BaseFitRefused(pairs, model_type) ==
    model_type = "gradient_boosting" /\ NumClasses(pairs) < 2

\* A classifier object: its kind, whether fit has completed on it, and the
\* train call that created it
Classifier(kind, fitted, by) ==
    [kind |-> kind, fitted |-> fitted, trained_by |-> by]

\* The scaler after fit_transform in train call number by
FittedScaler(by) == [fitted_by |-> by]

\* The metrics train returns
Metrics(pairs, reported_type) ==
    [accuracy |-> "measured",
     train_size |-> NumLabeled(pairs),
     test_size |-> TestSize(pairs),
     unique_composites |-> NumClasses(pairs),
     model_type |-> reported_type]

\* model_type in the metrics: "ensemble" whenever the ensemble branch was
\* entered, whether or not the ensemble was installed
ReportedType(pairs, model_type, use_ensemble) ==
    IF use_ensemble /\ NumLabeled(pairs) > EnsembleAbove
    THEN "ensemble" ELSE model_type

\* len(X) < 1: the length test of train with its threshold at one example
TooFewLabeled_One(pairs) == NumLabeled(pairs) < 1

\* len(X) < 2
TooFewLabeled(pairs) == NumLabeled(pairs) < MinLabeled

\* EnsembleStep that installs the ensemble before fitting it and keeps it
\* when the fit fails
EnsembleStep_NoFallback(a, pairs, use_ensemble, fits, id) ==
    IF use_ensemble /\ NumLabeled(pairs) > EnsembleAbove
    THEN [a EXCEPT !.model =
              Some(Classifier("ensemble", fits /\ NumClasses(pairs) >= 2,
                              id))]
    ELSE a

\* Lines 385-444: with use_ensemble and more than 50 training examples a
\* voting ensemble is fitted and installed in place of the fitted base
\* model; when ensemble.fit fails the base model stays.  fits is the
\* outcome of ensemble.fit on labels of two or more classes; on labels of
\* a single class it fails, its gradient boosting member refusing them.
EnsembleStep(a, pairs, use_ensemble, fits, id) ==
    IF /\ use_ensemble
       /\ NumLabeled(pairs) > EnsembleAbove
       /\ fits
       /\ NumClasses(pairs) >= 2
    THEN [a EXCEPT !.model = Some(Classifier("ensemble", TRUE, id))]
    ELSE a

\* CompositeModelTrainer.train, prepare_training_data included, as call
\* number id on a trainer whose artifact is a.  The three errors raised for
\* too few examples are the InsufficientData of the specification; the
\* library's refusals and the unknown model type are ValueErrors of their
\* own.
train(a, pairs, model_type, use_ensemble, fits, id) ==
    LET prepared == [a EXCEPT !.feature_names = feature_cols]
        scaled == [prepared EXCEPT !.scaler = FittedScaler(id)]
        chosen == [scaled EXCEPT
                      !.model = Some(Classifier(model_type, FALSE, id))]
        fitted == [scaled EXCEPT
                      !.model = Some(Classifier(model_type, TRUE, id))]
    IN  IF NumPairs(pairs) = 0
        THEN Raised(a, "InsufficientData", 322)
        ELSE IF NumLabeled(pairs) = 0
        THEN Raised(a, "InsufficientData", 267)
        ELSE IF TooFewLabeled(pairs)
        THEN Raised(prepared, "InsufficientData", 328)
        ELSE IF SplitTaken(pairs) /\ SplitRefused(pairs)
        THEN Raised(prepared, "ValueError", 339)
        ELSE IF model_type \notin ModelTypes
        THEN Raised(scaled, "UnknownModelType", 378)
        ELSE IF BaseFitRefused(pairs, model_type)
        THEN Raised(chosen, "ValueError", 382)
        ELSE Returned(EnsembleStep(fitted, pairs, use_ensemble, fits, id),
                      Metrics(pairs,
                              ReportedType(pairs, model_type, use_ensemble)))

----------------------------------------------------------------------------
(* The training specification *)

MaxTrainCalls == 2

\* 201 examples in 40 classes of at least 5
ManyClasses == [i \in 1..40 |-> IF i = 1 THEN 6 ELSE 5]

\* Label distributions around the thresholds of train: 0, 1 and 2
\* examples, 50 and 51, 101, 200 and 201, one class and several
ClassCounts ==
    {<<>>, <<1>>, <<2>>, <<1, 1>>, <<50>>, <<26, 25>>, <<98, 3>>,
     <<100, 100>>, <<4, 197>>, <<101, 100>>, <<201>>, ManyClasses}

TrainPairs == {Pairs(c, k) : c \in {0, 2}, k \in ClassCounts}

TrainModelTypes == ModelTypes \cup {"svm"}

\* A fresh trainer; the catalog plays no part in training
InitTrain ==
    /\ db = CompositeDatabase(<<Pool[1]>>, TablesA)
    /\ CallerInit
    /\ TrainerInit
    /\ ToolInit

\* trainer.train(pairs, model_type, use_ensemble)
Train(pairs, model_type, use_ensemble, fits) ==
    /\ call.op = "none"
    /\ train_calls < MaxTrainCalls
    /\ call' = [op |-> "train",
                args |-> [pairs |-> pairs, model_type |-> model_type,
                          use_ensemble |-> use_ensemble]]
    /\ train_calls' = train_calls + 1
    /\ LET r == train(Artifact(model, scaler, feature_names), pairs,
                      model_type, use_ensemble, fits, train_calls + 1)
       IN  /\ model' = r.artifact.model
           /\ scaler' = r.artifact.scaler
           /\ feature_names' = r.artifact.feature_names
           /\ train_ret' = r.ret
           /\ completed' = (completed \/ r.ret.status = "ok")
    /\ UNCHANGED <<db, filtered, priority_results, alternative_results, ret,
                   score_calls, saved>>
    /\ UNCHANGED toolVars

\* CompositeModelTrainer.predict on a trainer whose artifact is a: the
\* model-is-None test, then scaler.transform and model.predict, which the
\* library refuses (NotFittedError) on an object that was never fitted.
\* A prediction is named by the train calls that fitted the classifier and
\* the scaler it was computed with.
predict(a, emg_data) ==
    IF a.model = None
    THEN [status |-> "error", error |-> "ModelNotTrained", line |-> 479]
    ELSE IF a.scaler.fitted_by = 0
    THEN [status |-> "error", error |-> "NotFittedError", line |-> 500]
    ELSE IF ~a.model[1].fitted
    THEN [status |-> "error", error |-> "NotFittedError", line |-> 503]
    ELSE [status |-> "ok",
          prediction |-> [model |-> a.model[1].trained_by,
                          scaler |-> a.scaler.fitted_by]]

\* emg_data of predict: every key is read with .get(key, 0)
PredictInputs == {EmptyDict, [masseter_right_chewing |-> 350]}

\* trainer.predict(emg_data)
Predict(emg_data) ==
    /\ call.op = "none"
    /\ call' = [op |-> "predict", args |-> [emg_data |-> emg_data]]
    /\ result' = predict(Artifact(model, scaler, feature_names), emg_data)
    /\ UNCHANGED <<normalizer, extracted_pairs>>
    /\ UNCHANGED trainerVars
    /\ UNCHANGED <<db, filtered, priority_results, alternative_results, ret,
                   score_calls>>

\* trainer.save_model(filepath): the three attributes are pickled
SaveModel ==
    /\ call.op = "none"
    /\ call' = [op |-> "save_model", args |-> <<>>]
    /\ saved' = Some(Artifact(model, scaler, feature_names))
    /\ UNCHANGED <<model, scaler, feature_names, train_calls, train_ret,
                   completed>>
    /\ UNCHANGED toolVars
    /\ UNCHANGED <<db, filtered, priority_results, alternative_results, ret,
                   score_calls>>

\* An artifact whose classifier has been fitted
TrainedArtifact(a) == a.model # None /\ a.model[1].fitted

\* trainer.load_model(filepath) of a file save_model wrote
LoadModel ==
    /\ call.op = "none"
    /\ saved # None
    /\ call' = [op |-> "load_model", args |-> <<>>]
    /\ model' = saved[1].model
    /\ scaler' = saved[1].scaler
    /\ feature_names' = saved[1].feature_names
    /\ completed' = (completed \/ TrainedArtifact(saved[1]))
    /\ UNCHANGED <<train_calls, train_ret, saved>>
    /\ UNCHANGED toolVars
    /\ UNCHANGED <<db, filtered, priority_results, alternative_results, ret,
                   score_calls>>

NextTrain ==
    \/ \E pairs \in TrainPairs, model_type \in TrainModelTypes,
          use_ensemble \in BOOLEAN, fits \in BOOLEAN :
           Train(pairs, model_type, use_ensemble, fits)
    \/ \E emg_data \in PredictInputs : Predict(emg_data)
    \/ SaveModel
    \/ LoadModel
    \/ Return

SpecTrain == InitTrain /\ [][NextTrain]_vars

----------------------------------------------------------------------------
(* Claims about train, checked under SpecTrain *)

TrainCalled == call.op = "train"
InsufficientData ==
    train_ret.status = "error" /\ train_ret.error = "InsufficientData"

\* The call has completed and its classifier is the trainer's model
Installed ==
    /\ train_ret.status = "ok"
    /\ model # None
    /\ model[1].fitted
    /\ model[1].trained_by = train_calls

LibraryRefuses(pairs, model_type) ==
    \/ model_type = "gradient_boosting" /\ NumClasses(pairs) < 2
    \/ /\ NumLabeled(pairs) > 200
       /\ \A i \in DOMAIN pairs.class_counts : pairs.class_counts[i] >= 5
       /\ (NumLabeled(pairs) + 9) \div 10 < NumClasses(pairs)

C10_ArtifactUnchangedOnAbort ==
    [][(call'.op = "train"
        /\ train_ret'.status = "error"
        /\ train_ret'.error = "InsufficientData") =>
           /\ model' = model
           /\ scaler' = scaler
           /\ feature_names' = feature_names]_vars

PredictCalled == call.op = "predict"
ModelNotTrained ==
    result.status = "error" /\ result.error = "ModelNotTrained"

\* C11: a predict call that is not preceded by a completed train, or by a
\* load_model of a trained artifact, fails with ModelNotTrained; a predict
\* issued after a train call that raised is included.
C11_PredictBeforeTrainFails ==
    (PredictCalled /\ ~completed) => ModelNotTrained

\* C12: the scaler and the model the trainer holds were fit by the same
\* train call, in every state in which predict can be called.
C12_ScalerAndModelOfOneCall ==
    (model # None) => scaler.fitted_by = model[1].trained_by

----------------------------------------------------------------------------
(* The catalog specification: filter_composites, select_composite and     *)
(* calculate_composite_score in any order on one CompositeDatabase         *)

CatalogPool == {1, 5, 9}

CatalogFilterArgs ==
    {a \in FilterArgs : /\ a.wear_severity \in {None, Some(<<"mild">>)}
                        /\ a.region_filter = None
                        /\ a.year_min = None}

CatalogPatients ==
    {p \in ScorePatients : p.mvc_hyperfunction_percent = None}

InitCatalog ==
    /\ \E records \in Catalogs(CatalogPool, MaxFilterCatalog), t \in Tables :
           db = CompositeDatabase(records, t)
    /\ CallerInit
    /\ TrainerInit
    /\ ToolInit

NextCatalog ==
    \/ \E a \in CatalogFilterArgs : FilterComposites(a)
    \/ \E p \in CatalogPatients, n \in {1, 2}, b \in BOOLEAN :
           SelectComposite(p, n, b)
    \/ \E i \in DOMAIN db.composites, p \in CatalogPatients :
           CalculateCompositeScore(db.composites[i], EmptyDict, p)
    \/ Return

SpecCatalog == InitCatalog /\ [][NextCatalog]_vars

\* C13: no filter_composites, calculate_composite_score or select_composite
\* call changes the catalog: the rows the CompositeDatabase holds, their
\* attribute values and their columns stay what they were after
\* construction; the filler_optimal tag is on the returned copy only.
C13_CatalogNeverMutated == [][db' = db]_vars

\* After scoring calls a filter call has returned tagged rows, while no row
\* of the catalog carries the tag
C13_Witness ==
    /\ FilterCalled
    /\ Len(score_calls) = 2
    /\ \E i \in DOMAIN filtered : filtered[i].filler_optimal # None
    /\ \A i \in DOMAIN db.composites :
           db.composites[i].filler_optimal = None

----------------------------------------------------------------------------
(* Loading: CompositeDatabase(json_path) on a catalog file.  The parsed    *)
(* file is [type, items]: a JSON object with its items, or another JSON    *)
(* value.                                                                  *)

JsonDict(items) == [type |-> "dict", items |-> items]
JsonList == [type |-> "list", items |-> EmptyDict]

\* The keys the catalog file of the repository has at its top level, of
\* which the loader reads five
CatalogKeys ==
    {"composites", "selection_criteria", "emg_based_classification",
     "bushan_classification", "twes2_classification"}

\* The catalog file with `records` and the tables t, restricted to `keys`
CatalogFile(records, t, keys) ==
    JsonDict([k \in keys |->
        CASE k = "composites" -> records
          [] k = "selection_criteria" -> t.criteria
          [] k = "emg_based_classification" -> t.emg_based_classification
          [] k = "bushan_classification" -> t.bushan_classification
          [] k = "twes2_classification" -> t.twes2_classification])

NoDatabase == [none |-> TRUE]

KeyError(key, line) ==
    [status |-> "error", error |-> "KeyError", key |-> key, line |-> line]

\* CompositeDatabase.__init__ after json.load: what the constructor raises,
\* or the object it builds
CompositeDatabase_init(data) ==
    IF data.type # "dict"
    THEN [ret |-> [status |-> "error", error |-> "ValueError", line |-> 86]]
    ELSE IF "composites" \notin DOMAIN data.items
    THEN [ret |-> KeyError("composites", 90)]
    ELSE IF "selection_criteria" \notin DOMAIN data.items
    THEN [ret |-> KeyError("selection_criteria", 92)]
    ELSE IF "emg_based_classification" \notin DOMAIN data.items
    THEN [ret |-> KeyError("emg_based_classification", 94)]
    ELSE [ret |-> [status |-> "ok"],
          db |-> [composites |-> DataFrame(data.items.composites),
                  criteria |-> data.items.selection_criteria,
                  emg_classification |->
                      data.items.emg_based_classification,
                  bushan_classification |->
                      Get(data.items, "bushan_classification", EmptyDict),
                  twes2_classification |->
                      Get(data.items, "twes2_classification", EmptyDict)]]

CatalogFiles ==
    {JsonList} \cup
    {CatalogFile(records, t, keys) :
        records \in {<<Pool[1]>>, <<Pool[5], Pool[1]>>},
        t \in Tables, keys \in SUBSET CatalogKeys}

\* No database has been constructed
InitLoad ==
    /\ db = NoDatabase
    /\ CallerInit
    /\ TrainerInit
    /\ ToolInit

\* db = CompositeDatabase(json_path): when the constructor raises, the
\* caller's variable keeps what it held
Construct(data) ==
    /\ call.op = "none"
    /\ call' = [op |-> "CompositeDatabase", args |-> [data |-> data]]
    /\ LET r == CompositeDatabase_init(data)
       IN  /\ result' = r.ret
           /\ db' = IF r.ret.status = "ok" THEN r.db ELSE db
    /\ UNCHANGED <<filtered, priority_results, alternative_results, ret,
                   score_calls, normalizer, extracted_pairs>>
    /\ UNCHANGED trainerVars

NextLoad ==
    \/ \E data \in CatalogFiles : Construct(data)
    \/ Return

SpecLoad == InitLoad /\ [][NextLoad]_vars

ConstructCalled == call.op = "CompositeDatabase"

\* C14: constructing CompositeDatabase from a catalog object that lacks
\* one of the keys composites, selection_criteria,
\* emg_based_classification, bushan_classification, twes2_classification
\* fails with a configuration error naming a missing key; no database
\* object is produced.
C14_MissingKeyFailsAtLoad ==
    (/\ ConstructCalled
     /\ call.args.data.type = "dict"
     /\ CatalogKeys \ DOMAIN call.args.data.items # {}) =>
        /\ result.status = "error"
        /\ result.error = "KeyError"
        /\ result.key \in CatalogKeys \ DOMAIN call.args.data.items

----------------------------------------------------------------------------
(* EMGNormalizer *)
(* A float the normalizer returns is the exact fraction [num, den].        *)

\* EMGApparatus, MuscleType, MeasurementCondition
Apparatus == {"BjoEMG II", "Synapsys", "Kolibri", "Other"}
Muscles == {"masseter", "temporalis"}
Conditions == {"chewing", "max_clench"}

Frac(num, den) == [num |-> num, den |-> den]

\* The greatest common divisor of two naturals, b > 0
RECURSIVE Gcd(_, _)
Gcd(a, b) == IF a % b = 0 THEN b ELSE Gcd(b, a % b)

\* The same fraction in lowest terms
Reduce(a) ==
    LET g == Gcd(IF a.num < 0 THEN 0 - a.num ELSE a.num,
                 IF a.den < 0 THEN 0 - a.den ELSE a.den)
    IN  Frac(a.num \div g, a.den \div g)

FracMul(a, b) ==
    LET x == Reduce(Frac(a.num, b.den))
        y == Reduce(Frac(b.num, a.den))
    IN  Frac(x.num * y.num, x.den * y.den)
FracAdd(a, b) == Frac(a.num * b.den + b.num * a.den, a.den * b.den)
FracAbs(a) == Frac(IF a.num < 0 THEN 0 - a.num ELSE a.num, a.den)
Float(n) == Frac(n, 1)
\* a - b, a / b (b nonzero) and a == b on fractions
FracSub(a, b) == Frac(a.num * b.den - b.num * a.den, a.den * b.den)
FracDiv(a, b) == FracMul(a, Frac(b.den, b.num))
FracEq(a, b) ==
    LET x == Reduce(a)
        y == Reduce(b)
    IN  x.num * y.den = y.num * x.den

\* CONVERSION_COEFFICIENTS, in hundredths (3.1, 1.75, 1.3, 0.5)
CONVERSION_COEFFICIENTS ==
    [c \in Conditions |-> [m \in Muscles |->
        CASE c = "chewing" /\ m = "masseter" -> 310
          [] c = "chewing" /\ m = "temporalis" -> 175
          [] c = "max_clench" /\ m = "masseter" -> 130
          [] c = "max_clench" /\ m = "temporalis" -> 50]]

UnsupportedConversion(line) ==
    [status |-> "error", error |-> "UnsupportedConversion", line |-> line]

\* convert_between_apparatus that passes the value through where the
\* code refuses the pair
convert_passthrough(self, value, from, to, muscle, condition) ==
    IF from = "Kolibri" /\ to = "Synapsys"
    THEN [status |-> "ok",
          value |-> Frac(value * CONVERSION_COEFFICIENTS[condition][muscle],
                         100)]
    ELSE IF from = "Synapsys" /\ to = "Kolibri"
    THEN [status |-> "ok",
          value |-> Frac(value * 100,
                         CONVERSION_COEFFICIENTS[condition][muscle])]
    ELSE [status |-> "ok", value |-> Frac(value, 1)]

\* EMGNormalizer.convert_between_apparatus; self is not read
convert_between_apparatus(self, value, from, to, muscle, condition) ==
    IF from = to
    THEN [status |-> "ok", value |-> Frac(value, 1)]
    ELSE IF to = "Synapsys"
    THEN IF from = "Kolibri"
         THEN [status |-> "ok",
               value |-> Frac(value * CONVERSION_COEFFICIENTS[condition][muscle],
                              100)]
         ELSE UnsupportedConversion(162)
    ELSE IF from = "Synapsys"
    THEN IF to = "Kolibri"
         THEN [status |-> "ok",
               value |-> Frac(value * 100,
                              CONVERSION_COEFFICIENTS[condition][muscle])]
         ELSE UnsupportedConversion(170)
    ELSE UnsupportedConversion(173)

\* CONTROL_VALUES_SYNAPSYS, CONTROL_VALUES_KOLIBRI, CONTROL_VALUES_BJOEMG2
ControlValues(chew_mas, chew_tem, clench_mas, clench_tem) ==
    [c \in Conditions |-> [m \in Muscles |->
        CASE c = "chewing" /\ m = "masseter" -> chew_mas
          [] c = "chewing" /\ m = "temporalis" -> chew_tem
          [] c = "max_clench" /\ m = "masseter" -> clench_mas
          [] c = "max_clench" /\ m = "temporalis" -> clench_tem]]

CONTROL_VALUES_SYNAPSYS ==
    ControlValues(Frac(3525, 10), Float(224), Float(355), Float(262))
CONTROL_VALUES_KOLIBRI ==
    ControlValues(Float(111), Float(138), Float(278), Float(558))
CONTROL_VALUES_BJOEMG2 ==
    ControlValues(Float(60), Float(60), Float(230), Float(230))

\* normalize_to_control that returns the deviation from the control value
\* in percent
normalize_deviation(self, value, apparatus, muscle, condition) ==
    LET control ==
            IF apparatus = "Kolibri"
            THEN CONTROL_VALUES_KOLIBRI[condition][muscle]
            ELSE IF apparatus = "BjoEMG II"
            THEN CONTROL_VALUES_BJOEMG2[condition][muscle]
            ELSE CONTROL_VALUES_SYNAPSYS[condition][muscle]
    IN  [status |-> "ok",
         value |-> FracMul(FracDiv(FracSub(value, control), control),
                           Float(100))]

\* EMGNormalizer.normalize_to_control; self is not read
normalize_to_control(self, value, apparatus, muscle, condition) ==
    LET control ==
            IF apparatus = "Synapsys"
            THEN CONTROL_VALUES_SYNAPSYS[condition][muscle]
            ELSE IF apparatus = "Kolibri"
            THEN CONTROL_VALUES_KOLIBRI[condition][muscle]
            ELSE IF apparatus = "BjoEMG II"
            THEN CONTROL_VALUES_BJOEMG2[condition][muscle]
            ELSE CONTROL_VALUES_SYNAPSYS[condition][muscle]
    IN  [status |-> "ok",
         value |-> FracMul(FracDiv(value, control), Float(100))]

ZeroDivisionError == [status |-> "error", error |-> "ZeroDivisionError"]

\* a / b of two floats
Divide(a, b) ==
    IF b.num = 0 THEN ZeroDivisionError
    ELSE [status |-> "ok", value |-> FracDiv(a, b)]

\* calculate_relative_change without its test of value_before
is_zero_never(x) == FALSE

\* value_before == 0
is_zero(x) == x.num = 0

\* EMGNormalizer.calculate_relative_change
calculate_relative_change(self, value_before, value_after) ==
    IF is_zero(value_before) THEN [status |-> "ok", value |-> Float(0)]
    ELSE LET quotient == Divide(FracSub(value_after, value_before),
                                value_before)
         IN  IF quotient.status = "ok"
             THEN [status |-> "ok",
                   value |-> FracMul(quotient.value, Float(100))]
             ELSE quotient

EmgValues == {0, 100, 352}

\* Float arguments: zero, whole, fractional and negative values
FloatValues == {Float(0), Float(100), Frac(7, 2), Float(0 - 50)}

\* EMGNormalizer(reference_apparatus)
InitNormalizer ==
    /\ db = NoDatabase
    /\ CallerInit
    /\ TrainerInit
    /\ \E a \in Apparatus : normalizer = [reference_apparatus |-> a]
    /\ extracted_pairs = <<>>

\* normalizer.convert_between_apparatus(value, from, to, muscle, condition)
Convert(value, from, to, muscle, condition) ==
    /\ call.op = "none"
    /\ call' = [op |-> "convert_between_apparatus",
                args |-> [value |-> value, from_apparatus |-> from,
                          to_apparatus |-> to, muscle |-> muscle,
                          condition |-> condition]]
    /\ result' = convert_between_apparatus(normalizer, value, from, to,
                                           muscle, condition)
    /\ UNCHANGED <<normalizer, extracted_pairs>>
    /\ UNCHANGED trainerVars
    /\ UNCHANGED <<db, filtered, priority_results, alternative_results, ret,
                   score_calls>>

\* normalizer.normalize_to_control(value, apparatus, muscle, condition)
NormalizeToControl(value, apparatus, muscle, condition) ==
    /\ call.op = "none"
    /\ call' = [op |-> "normalize_to_control",
                args |-> [value |-> value, apparatus |-> apparatus,
                          muscle |-> muscle, condition |-> condition]]
    /\ result' = normalize_to_control(normalizer, value, apparatus, muscle,
                                      condition)
    /\ UNCHANGED <<normalizer, extracted_pairs>>
    /\ UNCHANGED trainerVars
    /\ UNCHANGED <<db, filtered, priority_results, alternative_results, ret,
                   score_calls>>

\* normalizer.calculate_relative_change(value_before, value_after)
CalculateRelativeChange(value_before, value_after) ==
    /\ call.op = "none"
    /\ call' = [op |-> "calculate_relative_change",
                args |-> [value_before |-> value_before,
                          value_after |-> value_after]]
    /\ result' = calculate_relative_change(normalizer, value_before,
                                           value_after)
    /\ UNCHANGED <<normalizer, extracted_pairs>>
    /\ UNCHANGED trainerVars
    /\ UNCHANGED <<db, filtered, priority_results, alternative_results, ret,
                   score_calls>>

NextNormalizer ==
    \/ \E value \in EmgValues, from \in Apparatus, to \in Apparatus,
          muscle \in Muscles, condition \in Conditions :
           Convert(value, from, to, muscle, condition)
    \/ \E value \in FloatValues, apparatus \in Apparatus,
          muscle \in Muscles, condition \in Conditions :
           NormalizeToControl(value, apparatus, muscle, condition)
    \/ \E value_before \in FloatValues, value_after \in FloatValues :
           CalculateRelativeChange(value_before, value_after)
    \/ Return

SpecNormalizer == InitNormalizer /\ [][NextNormalizer]_vars

ConvertCalled == call.op = "convert_between_apparatus"

----------------------------------------------------------------------------
(* The wear-severity specification: _classify_wear_severity on its own and *)
(* inside select_composite                                                 *)

ClassifyPool == {1, 3, 8}

\* PatientData over the fields _classify_wear_severity reads
ClassifyPatients ==
    {[masseter_right_chewing |-> 350, masseter_left_chewing |-> 340,
      occlusion_anomaly_type |-> o, wear_severity |-> w,
      mvc_hyperfunction_percent |-> h,
      mvc_duration_sec_per_min |-> t] :
        o \in {None, Some("crossbite")},
        w \in {None, Some(<<>>), Some(<<"severe">>), Some(<<"worn">>)},
        h \in {None, Some(0), Some(20), Some(21)},
        t \in {None} \cup {Some(x) : x \in 0..7}}

InitClassify ==
    /\ \E records \in Catalogs(ClassifyPool, MaxFilterCatalog), t \in Tables :
           db = CompositeDatabase(records, t)
    /\ CallerInit
    /\ TrainerInit
    /\ ToolInit

\* selector._classify_wear_severity(patient_data)
ClassifyWearSeverity(patient_data) ==
    /\ call.op = "none"
    /\ call' = [op |-> "_classify_wear_severity",
                args |-> [patient_data |-> patient_data]]
    /\ result' = [status |-> "ok",
                  value |-> classify_wear_severity(patient_data)]
    /\ UNCHANGED <<normalizer, extracted_pairs>>
    /\ UNCHANGED trainerVars
    /\ UNCHANGED <<db, filtered, priority_results, alternative_results, ret,
                   score_calls>>

NextClassify ==
    \/ \E p \in ClassifyPatients : ClassifyWearSeverity(p)
    \/ \E p \in ClassifyPatients, b \in BOOLEAN : SelectComposite(p, 3, b)
    \/ Return

SpecClassify == InitClassify /\ [][NextClassify]_vars

ClassifyCalled == call.op = "_classify_wear_severity"

\* The severity the rule assigns: the patient's own when it is set, else
\* by the hyperfunction percent and the duration
AssertedSeverity(p) ==
    LET hyper == p.mvc_hyperfunction_percent
        duration == p.mvc_duration_sec_per_min
        over == hyper # None /\ hyper[1] > 20
    IN  CASE p.wear_severity \notin {None, Some(<<>>)} -> p.wear_severity
          [] p.wear_severity \in {None, Some(<<>>)} /\ over
             /\ duration \in {Some(1), Some(2)} -> Some(<<"mild">>)
          [] p.wear_severity \in {None, Some(<<>>)} /\ over
             /\ duration \in {Some(4), Some(5), Some(6)} -> Some(<<"moderate">>)
          [] OTHER -> None

\* The candidates of select_composite when no wear-severity stage runs:
\* the occlusal, article-rule and anomaly stages only
CandidatesWithoutWearStage(d, p) ==
    LET df2 == ArticleRulesStage(OcclusalStage(d, d.composites))
    IN  IF p.occlusion_anomaly_type # None THEN AnomalyStage(d, df2)
        ELSE df2

\* C16: _classify_wear_severity returns the patient's wear_severity
\* verbatim when it is set; otherwise 'mild' when the hyperfunction percent
\* is over 20 and the duration is in [1,2], 'moderate' when it is over 20
\* and the duration is in [4,6], and None in every other case; and when it
\* is None select_composite applies no wear-severity filter stage.
C16_WearSeverityRule ==
    /\ ClassifyCalled =>
           result.value = AssertedSeverity(call.args.patient_data)
    /\ (SelectCalled /\ AssertedSeverity(call.args.patient_data) = None) =>
           filtered = CandidatesWithoutWearStage(db, call.args.patient_data)

\* A patient with hyperfunction over 20 and a duration between the bands
\* gets no severity, and select_composite keeps a candidate the 'moderate'
\* stage would have removed
C16_Witness ==
    /\ SelectCalled
    /\ call.args.patient_data.wear_severity = None
    /\ call.args.patient_data.mvc_hyperfunction_percent = Some(21)
    /\ call.args.patient_data.mvc_duration_sec_per_min = Some(3)
    /\ filtered # <<>>
    /\ WearSeverityStage(db, filtered, <<"moderate">>) # filtered

----------------------------------------------------------------------------
(* The empty candidate set of select_composite, checked under SpecSelect *)

\* The candidates of the one filter_composites call of select_composite
StrictCandidates ==
    filter_composites(db, select_filter_args(call.args.patient_data))

\* The candidates a filter without the wear-severity stage would leave
RelaxedCandidates ==
    filter_composites(db, [select_filter_args(call.args.patient_data)
                               EXCEPT !.wear_severity = None])

\* C17: when filtering yields zero candidates, select_composite returns an
\* empty list, for any patient data, top_n and include_alternatives: no
\* candidate is scored and no second filtering with relaxed criteria takes
\* place.
C17_EmptyFilterGivesEmptyList ==
    (SelectCalled /\ StrictCandidates = <<>>) =>
        /\ ret = <<>>
        /\ filtered = <<>>
        /\ priority_results = <<>>
        /\ alternative_results = <<>>

\* The wear-severity stage removed every candidate of a call that asked
\* for results; without that stage there would have been candidates
C17_Witness ==
    /\ SelectCalled
    /\ call.args.top_n > 0
    /\ call.args.include_alternatives
    /\ StrictCandidates = <<>>
    /\ RelaxedCandidates # <<>>
    /\ ret = <<>>

----------------------------------------------------------------------------
(* The evaluation split of train, checked under SpecTrain *)

\* C18: train holds out 10% of the labeled examples for evaluation exactly
\* when there are at least 200 labeled examples and every class has at
\* least 5 (test_size is then a tenth of the labeled count, rounded up);
\* in every other case test_size equals train_size; in both cases the
\* model is fit on all labeled examples (train_size is their number).
C18_SplitFromTwoHundred ==
    (TrainCalled /\ train_ret.status = "ok") =>
        LET n == NumLabeled(call.args.pairs)
            metrics == train_ret.metrics
        IN  /\ metrics.train_size = n
            /\ IF n >= 200 /\ SeqMin(call.args.pairs.class_counts) >= 5
               THEN /\ metrics.test_size * 10 >= n
                    /\ metrics.test_size * 10 < n + 10
               ELSE metrics.test_size = metrics.train_size

----------------------------------------------------------------------------
(* generate_synthetic_pairs (generate_synthetic_training_data.py)          *)
(* A float of a pair is an exact fraction.  The two random generators      *)
(* (numpy's and the random module's) are streams: the state of a generator *)
(* at the call is a position in a table of outcomes, and every draw takes  *)
(* the next entry.  A normal draw is given in standard deviations.         *)

\* The EMG fields of EMGCompositePair, in the order of the class
EmgFields ==
    <<"masseter_right_chewing", "masseter_left_chewing",
      "temporalis_right_chewing", "temporalis_left_chewing",
      "masseter_right_max_clench", "masseter_left_max_clench",
      "temporalis_right_max_clench", "temporalis_left_max_clench">>

\* The keyword arguments of a variation that call _add_variation, in the
\* order they are evaluated
VariedFields == Append(EmgFields, "mvc_hyperfunction_percent")

\* EMGCompositePair with the eight EMG fields emg[1..8]; the metadata
\* fields are display text
EMGCompositePair(emg, age, hyper, name, category) ==
    [masseter_right_chewing |-> emg[1], masseter_left_chewing |-> emg[2],
     temporalis_right_chewing |-> emg[3], temporalis_left_chewing |-> emg[4],
     masseter_right_max_clench |-> emg[5],
     masseter_left_max_clench |-> emg[6],
     temporalis_right_max_clench |-> emg[7],
     temporalis_left_max_clench |-> emg[8],
     age |-> age, mvc_hyperfunction_percent |-> hyper,
     composite_name |-> name, composite_category |-> category]

\* Outcomes of np.random.normal, in standard deviations, and raw outcomes
\* of the random module
NormalTable == <<0, -45, 3, -30, 45, -15, 1>>
RandomTable == <<0, 10, 5, 40, 64>>

\* The k-th draw (from 0) of a stream that starts at position seed
Draw(table, seed, k) == table[((seed + k) % Len(table)) + 1]

\* random.randint(a, b) on the raw outcome u
randint(a, b, u) == a + (u % (b - a + 1))

\* `return result`: _add_variation without its final clip
max_zero_unclipped(x) == x

\* max(0, result)
max_zero(x) == IF x.num < 0 THEN Float(0) ELSE x

\* Whether _add_variation(value, ...) draws from the generator
Draws(value) == value # None /\ value[1].num # 0

\* _add_variation(value, variation_percent) on the normal outcome z
add_variation(value, variation_percent, z) ==
    IF value = None THEN Float(0)
    ELSE IF value[1].num = 0 THEN Float(0)
    ELSE LET v == IF value[1].num < 0 THEN FracAbs(value[1]) ELSE value[1]
             third == FracAbs(FracMul(FracMul(v, variation_percent),
                                      Frac(1, 3)))
             std == IF third.num <= 0
                    THEN FracMul(FracAbs(v), Frac(5, 100)) ELSE third
             variation == FracMul(std, Float(z))
         IN  max_zero(FracAdd(v, variation))

\* _add_variation_int(value, max_variation) on the raw outcome u
add_variation_int(value, max_variation, u) ==
    IF value = None THEN randint(25, 65, u)
    ELSE LET variation == randint(0 - max_variation, max_variation, u)
             capped == IF value[1] + variation < 80
                       THEN value[1] + variation ELSE 80
         IN  IF capped > 18 THEN capped ELSE 18

\* variation_percent of a varied field
VariationPercent(field) ==
    IF field = "mvc_hyperfunction_percent" THEN Frac(2, 10) ELSE Frac(1, 10)

\* The number of normal draws one variation of base_pair takes
DrawsOf(base_pair) ==
    Cardinality({k \in DOMAIN VariedFields :
                    Draws(base_pair[VariedFields[k]])})

\* The variation of base_pair made with the generators at positions np
\* (numpy) and py (random)
Variation(base_pair, np, py) ==
    LET before(k) == Cardinality({j \in 1..(k - 1) :
                                     Draws(base_pair[VariedFields[j]])})
        varied(k) == Some(add_variation(base_pair[VariedFields[k]],
                                        VariationPercent(VariedFields[k]),
                                        Draw(NormalTable, np, before(k))))
    IN  EMGCompositePair(
            [k \in DOMAIN EmgFields |-> varied(k)],
            Some(IF TruthyNum(base_pair.age)
                 THEN add_variation_int(base_pair.age, 5,
                                        Draw(RandomTable, py, 0))
                 ELSE randint(25, 65, Draw(RandomTable, py, 0))),
            varied(Len(VariedFields)),
            base_pair.composite_name, base_pair.composite_category)

\* generate_synthetic_pairs(base_pairs, multiplier), multiplier >= 0, with
\* the generators at positions np and py
generate_synthetic_pairs(base_pairs, multiplier, np, py) ==
    LET n == Len(base_pairs)
        draws == [i \in 1..n |-> multiplier * DrawsOf(base_pairs[i])]
        variant(m) ==
            LET i == ((m - 1) \div multiplier) + 1
                j == ((m - 1) % multiplier) + 1
            IN  Variation(base_pairs[i],
                          np + SeqSum(SubSeq(draws, 1, i - 1))
                             + (j - 1) * DrawsOf(base_pairs[i]),
                          py + (m - 1))
    IN  base_pairs \o [m \in 1..(n * multiplier) |-> variant(m)]

MaxBasePairs == 2
MaxMultiplier == 2

\* Base pairs: a full pair with an age next to the upper cap, one with
\* missing, zero and negative values, one without a label and with age 0,
\* one with an age below the lower cap
BasePairPool ==
    {EMGCompositePair([k \in 1..8 |-> Some(Float(300 + k))], Some(79),
                      Some(Float(25)), Some("Filtek"), Some("nanohybrid")),
     EMGCompositePair([k \in 1..8 |-> IF k = 1 THEN None
                                      ELSE IF k = 2 THEN Some(Float(0))
                                      ELSE IF k = 3 THEN Some(Float(0 - 300))
                                      ELSE Some(Frac(7, 2))],
                      None, None, Some("Estelite"), None),
     EMGCompositePair([k \in 1..8 |-> Some(Float(111))], Some(0),
                      Some(Float(0)), None, None),
     EMGCompositePair([k \in 1..8 |-> Some(Float(60))], Some(14),
                      Some(Float(0 - 5)), Some("Charisma"),
                      Some("microhybrid"))}

BasePairLists == UNION {[1..n -> BasePairPool] : n \in 0..MaxBasePairs}

InitGenerate ==
    /\ db = NoDatabase
    /\ CallerInit
    /\ TrainerInit
    /\ ToolInit

\* generate_synthetic_pairs(base_pairs, multiplier) with the generators in
\* the states np and py
GenerateSyntheticPairs(base_pairs, multiplier, np, py) ==
    /\ call.op = "none"
    /\ call' = [op |-> "generate_synthetic_pairs",
                args |-> [base_pairs |-> base_pairs,
                          multiplier |-> multiplier]]
    /\ result' = [status |-> "ok",
                  value |-> generate_synthetic_pairs(base_pairs, multiplier,
                                                     np, py)]
    /\ UNCHANGED <<normalizer, extracted_pairs>>
    /\ UNCHANGED trainerVars
    /\ UNCHANGED <<db, filtered, priority_results, alternative_results, ret,
                   score_calls>>

NextGenerate ==
    \/ \E base_pairs \in BasePairLists, multiplier \in 0..MaxMultiplier,
          np \in 0..(Len(NormalTable) - 1), py \in 0..(Len(RandomTable) - 1) :
           GenerateSyntheticPairs(base_pairs, multiplier, np, py)
    \/ Return

SpecGenerate == InitGenerate /\ [][NextGenerate]_vars

GenerateCalled == call.op = "generate_synthetic_pairs"

\* The j-th variant of the i-th base pair in the returned list
VariantOf(i, j) ==
    result.value[Len(call.args.base_pairs)
                     + (i - 1) * call.args.multiplier + j]

\* C19: generate_synthetic_pairs returns the base pairs followed by exactly
\* `multiplier` variants per base pair; every variant has the composite_name
\* and the category of its base pair, every EMG field >= 0 and an age
\* within [18,80], for every random outcome of the perturbation.
C19_VariantsKeepLabelAndRanges ==
    GenerateCalled =>
        LET base_pairs == call.args.base_pairs
            multiplier == call.args.multiplier
        IN  /\ Len(result.value) = Len(base_pairs) * (1 + multiplier)
            /\ SubSeq(result.value, 1, Len(base_pairs)) = base_pairs
            /\ \A i \in DOMAIN base_pairs, j \in 1..multiplier :
                   /\ VariantOf(i, j).composite_name
                          = base_pairs[i].composite_name
                   /\ VariantOf(i, j).composite_category
                          = base_pairs[i].composite_category
                   /\ \A k \in DOMAIN VariedFields :
                          /\ VariantOf(i, j)[VariedFields[k]] # None
                          /\ VariantOf(i, j)[VariedFields[k]][1].num >= 0
                          /\ VariantOf(i, j)[VariedFields[k]][1].den > 0
                   /\ VariantOf(i, j).age # None
                   /\ VariantOf(i, j).age[1] >= 18
                   /\ VariantOf(i, j).age[1] <= 80

\* Two base pairs with two variants each; a draw far below the mean was
\* clipped to 0 in a field whose base value is positive, and an age was
\* capped at 80
C19_Witness ==
    /\ GenerateCalled
    /\ Len(call.args.base_pairs) = 2
    /\ call.args.multiplier = 2
    /\ \E i \in 1..2, j \in 1..2 :
           /\ call.args.base_pairs[i].masseter_right_chewing # None
           /\ call.args.base_pairs[i].masseter_right_chewing[1].num > 0
           /\ VariantOf(i, j).masseter_right_chewing = Some(Float(0))
    /\ \E i \in 1..2, j \in 1..2 :
           /\ call.args.base_pairs[i].age = Some(79)
           /\ VariantOf(i, j).age = Some(80)

----------------------------------------------------------------------------
(* ClinicalDataExtractor (model_trainer.py)                                *)
(* The regular-expression engine is a library: a text is modelled by what  *)
(* re.finditer finds in it, pattern by pattern.  An EMG match is the       *)
(* number of its pattern, the words of the matched text (its context) and  *)
(* the captured value; a composite match is the captured name with its     *)
(* length, its number of words and whether its upper-case form contains a  *)
(* known name.  Russian words are written in Latin letters:                *)
(* "zhevanie", "akt zhevaniya", "pri akte zhevaniya".                      *)

\* The alternatives of the EMG patterns, in their order in the list
EmgPatterns ==
    LET chew == {"zhevanie", "chewing", "akt zhevaniya"}
        clench == {"maximum", "max", "mvc"}
        simple == {"pri akte zhevaniya", "chewing"}
        P(a, b, c) == [first |-> a, second |-> b, third |-> c]
    IN  <<P({"masseter"}, {"right"}, chew), P({"masseter"}, {"left"}, chew),
          P({"temporalis"}, {"right"}, chew),
          P({"temporalis"}, {"left"}, chew),
          P({"masseter"}, {"right"}, clench),
          P({"masseter"}, {"left"}, clench),
          P({"temporalis"}, {"right"}, clench),
          P({"temporalis"}, {"left"}, clench),
          P(simple, {"masseter"}, {}), P(simple, {"temporalis"}, {})>>

\* A match of pattern number m.pattern has a word of each alternative
MatchOf(m) ==
    LET pattern == EmgPatterns[m.pattern]
    IN  /\ m.context \cap pattern.first # {}
        /\ m.context \cap pattern.second # {}
        /\ pattern.third # {} => m.context \cap pattern.third # {}

\* `needle in context`: the substring test on the matched text
InContext(needle, context) ==
    \/ needle \in context
    \/ needle = "max" /\ "maximum" \in context

\* extract_emg_values: the dictionary made of one match
emg_entry(m) ==
    [value |-> Float(m.value),
     muscle_type |->
         IF InContext("masseter", m.context) THEN Some("masseter")
         ELSE IF InContext("temporalis", m.context) THEN Some("temporalis")
         ELSE None,
     side |->
         IF InContext("right", m.context) THEN Some("right")
         ELSE IF InContext("left", m.context) THEN Some("left")
         ELSE None,
     condition |->
         IF InContext("chewing", m.context)
            \/ InContext("zhevanie", m.context)
            \/ InContext("akt zhevaniya", m.context)
         THEN Some("chewing")
         ELSE IF InContext("max", m.context) \/ InContext("mvc", m.context)
         THEN Some("max_clench")
         ELSE None]

\* extract_emg_values(text)
extract_emg_values(text) ==
    [i \in DOMAIN text.emg_matches |-> emg_entry(text.emg_matches[i])]

\* The name filter of extract_composite_mentions
ReasonableName(c) == (c.chars <= 30 /\ c.known) \/ c.words <= 3

\* extract_composite_mentions(text)
extract_composite_mentions(text) ==
    SelectSeq(text.composite_matches, ReasonableName)

\* chewing_data / max_clench_data: the value of the last entry with the
\* condition and the key muscle_side, or None (dict.get)
GroupedValue(emg_data, condition, muscle, side) ==
    LET hits == {i \in DOMAIN emg_data :
                    /\ emg_data[i].condition = Some(condition)
                    /\ emg_data[i].muscle_type = Some(muscle)
                    /\ emg_data[i].side = Some(side)}
    IN  IF hits = {} THEN None
        ELSE Some(emg_data[CHOOSE i \in hits : \A j \in hits : j <= i].value)

\* `if chewing_data or max_clench_data:`
AnyGrouped(emg_data) ==
    \E i \in DOMAIN emg_data : emg_data[i].condition # None

\* EMGCompositePair(masseter_right_chewing=chewing_data.get(...), ...)
ExtractedPair(emg_data, name) ==
    EMGCompositePair(
        <<GroupedValue(emg_data, "chewing", "masseter", "right"),
          GroupedValue(emg_data, "chewing", "masseter", "left"),
          GroupedValue(emg_data, "chewing", "temporalis", "right"),
          GroupedValue(emg_data, "chewing", "temporalis", "left"),
          GroupedValue(emg_data, "max_clench", "masseter", "right"),
          GroupedValue(emg_data, "max_clench", "masseter", "left"),
          GroupedValue(emg_data, "max_clench", "temporalis", "right"),
          GroupedValue(emg_data, "max_clench", "temporalis", "left")>>,
        None, None, name, None)

\* ClinicalDataExtractor.extract_patient_data(text): the returned pairs
extract_patient_data(text) ==
    LET emg_data == extract_emg_values(text)
        composites == extract_composite_mentions(text)
    IN  IF emg_data # <<>> /\ composites # <<>>
        THEN [i \in DOMAIN composites |->
                 ExtractedPair(emg_data, Some(composites[i].name))]
        ELSE IF emg_data # <<>>
        THEN IF AnyGrouped(emg_data)
             THEN <<ExtractedPair(emg_data, None)>>
             ELSE <<>>
        ELSE <<>>

MaxEmgMatches == 2
MaxExtractedPairs == 2

\* Matches the patterns produce, ordered by pattern: full phrases (two with
\* the same muscle, side and condition), a clench phrase that also holds
\* "chewing", phrases of the two short patterns without a side, and
\* phrases of the short patterns that begin with "pri akte zhevaniya"
EmgMatchPool ==
    <<[pattern |-> 1, context |-> {"masseter", "right", "chewing"},
       value |-> 350],
      [pattern |-> 1, context |-> {"masseter", "right", "chewing"},
       value |-> 111],
      [pattern |-> 6, context |-> {"masseter", "left", "maximum"},
       value |-> 278],
      [pattern |-> 7,
       context |-> {"temporalis", "right", "mvc", "chewing"},
       value |-> 262],
      [pattern |-> 9, context |-> {"chewing", "masseter"}, value |-> 352],
      [pattern |-> 9, context |-> {"pri akte zhevaniya", "masseter"},
       value |-> 353],
      [pattern |-> 10,
       context |-> {"pri akte zhevaniya", "temporalis", "left"},
       value |-> 224]>>

\* The elements of pool with the indexes in idxs, in the pool's order
Pick(pool, idxs) ==
    LET F[k \in 0..Len(pool)] ==
            IF k = 0 THEN <<>>
            ELSE IF k \in idxs THEN Append(F[k - 1], pool[k])
            ELSE F[k - 1]
    IN  F[Len(pool)]

CompositeMatchPool ==
    <<[name |-> "Filtek", chars |-> 6, words |-> 1, known |-> FALSE],
      [name |-> "the XF bulk fill", chars |-> 16, words |-> 4,
       known |-> TRUE],
      [name |-> "During chewing the masseter", chars |-> 27, words |-> 4,
       known |-> FALSE]>>

\* The texts: what the EMG patterns and the composite patterns find
Texts ==
    {[emg_matches |-> Pick(EmgMatchPool, e),
      composite_matches |-> Pick(CompositeMatchPool, c)] :
        e \in {x \in SUBSET DOMAIN EmgMatchPool :
                  Cardinality(x) <= MaxEmgMatches},
        c \in {{}, {1}, {3}, {1, 2}, {1, 2, 3}}}

InitExtract ==
    /\ db = NoDatabase
    /\ CallerInit
    /\ TrainerInit
    /\ ToolInit

\* extract_patient_data with `self.extracted_pairs = pairs` for the extend
ExtractPatientData_Assign(text) ==
    /\ call.op = "none"
    /\ Len(extracted_pairs) < MaxExtractedPairs
    /\ \A i \in DOMAIN text.emg_matches : MatchOf(text.emg_matches[i])
    /\ call' = [op |-> "extract_patient_data", args |-> [text |-> text]]
    /\ result' = [status |-> "ok", value |-> extract_patient_data(text)]
    /\ extracted_pairs' = extract_patient_data(text)
    /\ UNCHANGED normalizer
    /\ UNCHANGED trainerVars
    /\ UNCHANGED <<db, filtered, priority_results, alternative_results, ret,
                   score_calls>>

\* extractor.extract_patient_data(text)
ExtractPatientData(text) ==
    /\ call.op = "none"
    /\ Len(extracted_pairs) < MaxExtractedPairs
    /\ \A i \in DOMAIN text.emg_matches : MatchOf(text.emg_matches[i])
    /\ call' = [op |-> "extract_patient_data", args |-> [text |-> text]]
    /\ result' = [status |-> "ok", value |-> extract_patient_data(text)]
    /\ extracted_pairs' = extracted_pairs \o extract_patient_data(text)
    /\ UNCHANGED normalizer
    /\ UNCHANGED trainerVars
    /\ UNCHANGED <<db, filtered, priority_results, alternative_results, ret,
                   score_calls>>

NextExtract ==
    \/ \E text \in Texts : ExtractPatientData(text)
    \/ Return

SpecExtract == InitExtract /\ [][NextExtract]_vars

ExtractCalled == call.op = "extract_patient_data"

\* The values of the EMG fields of a pair
CarriedValues(pair) ==
    {pair[EmgFields[k]][1] : k \in {j \in DOMAIN EmgFields :
                                       pair[EmgFields[j]] # None}}

\* C20: extract_patient_data returns one pair per detected composite
\* mention, each carrying the full set of EMG values found in the text,
\* when EMG values and composite mentions are found; exactly one control
\* pair (composite_name null) when EMG values are found and no composite
\* mention is; and an empty list, with no error, when no EMG value is
\* found.
C20_PairsPerMentionOrOneControl ==
    ExtractCalled =>
        LET emg_data == extract_emg_values(call.args.text)
            mentions == extract_composite_mentions(call.args.text)
            found == {emg_data[i].value : i \in DOMAIN emg_data}
            pairs == result.value
        IN  /\ result.status = "ok"
            /\ (emg_data # <<>> /\ mentions # <<>>) =>
                   /\ Len(pairs) = Len(mentions)
                   /\ \A i \in DOMAIN pairs :
                          /\ pairs[i].composite_name = Some(mentions[i].name)
                          /\ CarriedValues(pairs[i]) = found
            /\ (emg_data # <<>> /\ mentions = <<>>) =>
                   /\ Len(pairs) = 1
                   /\ pairs[1].composite_name = None
            /\ emg_data = <<>> => pairs = <<>>

----------------------------------------------------------------------------
(* Claims about normalize_to_control and calculate_relative_change,        *)
(* checked under SpecNormalizer                                            *)

NormalizeCalled == call.op = "normalize_to_control"
RelativeChangeCalled == call.op = "calculate_relative_change"

\* Scale factors k > 0
Factors == {Frac(1, 2), Float(3), Float(19)}

\* The control table of a recognised apparatus
ControlTable(apparatus) ==
    CASE apparatus = "Synapsys" -> CONTROL_VALUES_SYNAPSYS
      [] apparatus = "Kolibri" -> CONTROL_VALUES_KOLIBRI
      [] apparatus = "BjoEMG II" -> CONTROL_VALUES_BJOEMG2

Recognised == {"Synapsys", "Kolibri", "BjoEMG II"}

\* normalize_to_control(k*v, ...) = k * normalize_to_control(v, ...) for
\* the call made and every factor k
ScaleInvariant ==
    NormalizeCalled =>
        \A k \in Factors :
            FracEq(normalize_to_control(normalizer,
                                        FracMul(k, call.args.value),
                                        call.args.apparatus,
                                        call.args.muscle,
                                        call.args.condition).value,
                   FracMul(k, result.value))

\* The result is the value divided by table's control value for the muscle
\* and condition, times 100
PercentOf(table) ==
    LET control == table[call.args.condition][call.args.muscle]
    IN  /\ result.status = "ok"
        /\ FracEq(result.value,
                  Frac(call.args.value.num * 100 * control.den,
                       call.args.value.den * control.num))

C22_RelativeChangeZeroBefore ==
    RelativeChangeCalled =>
        LET before == call.args.value_before
            after == call.args.value_after
        IN  /\ result.status = "ok"
            /\ before.num = 0 => FracEq(result.value, Float(0))
            /\ before.num # 0 =>
                   FracEq(result.value,
                          Frac((after.num * before.den
                                    - before.num * after.den) * 100
                                   * before.den,
                               after.den * before.den * before.num))

\* calculate_relative_change(0, x) with x # 0 has returned 0
C22_Witness ==
    /\ RelativeChangeCalled
    /\ call.args.value_before = Float(0)
    /\ call.args.value_after = Float(100)
    /\ result = [status |-> "ok", value |-> Float(0)]

----------------------------------------------------------------------------
(* The score formula: calculate_composite_score on rows at the borders of  *)
(* its filler bands, alone in the catalog or beside a harder material      *)

FormulaFillers == <<0, 19, 20, 24, 25, 49, 50, 54, 55, 56, 70, 71, 85, 86>>

\* Category, hardness, shrinkage, wear resistance and depth of cure of the
\* rows, taken in turn
FormulaKinds ==
    <<[category |-> "nanohybrid", khn |-> 80, shr |-> 20,
       wear |-> "high", dep |-> 40],
      [category |-> "high_viscosity_bulk_fill", khn |-> 65, shr |-> 15,
       wear |-> "very_high", dep |-> 40],
      [category |-> "flowable", khn |-> 45, shr |-> 30,
       wear |-> "low", dep |-> 25],
      [category |-> "low_viscosity_bulk_fill", khn |-> 50, shr |-> 35,
       wear |-> "medium", dep |-> 45],
      [category |-> "microhybrid", khn |-> 55, shr |-> 28,
       wear |-> "unknown", dep |-> 20]>>

FormulaRow(k) ==
    LET kind == FormulaKinds[((k - 1) % Len(FormulaKinds)) + 1]
    IN  Composite("F", kind.category, "high", kind.khn, kind.shr,
                  FormulaFillers[k], kind.wear, kind.dep, TRUE, FALSE,
                  "EU", "M1", 2015, 3000)

FormulaCatalogs ==
    {<<FormulaRow(k)>> : k \in DOMAIN FormulaFillers}
        \cup {<<FormulaRow(k), Pool[5]>> : k \in DOMAIN FormulaFillers}

FormulaEmgFeatures ==
    {EmptyDict, [masseter_asymmetry_chewing |-> 20],
     [masseter_asymmetry_chewing |-> 21]}

FormulaPatients ==
    {[masseter_right_chewing |-> 350, masseter_left_chewing |-> 340,
      occlusion_anomaly_type |-> None, wear_severity |-> None,
      mvc_hyperfunction_percent |-> h[1],
      mvc_duration_sec_per_min |-> h[2]] :
        h \in {<<None, None>>, <<Some(21), Some(4)>>, <<Some(21), Some(3)>>,
               <<Some(20), Some(4)>>}}

InitFormula ==
    /\ \E records \in FormulaCatalogs :
           db = CompositeDatabase(records, TablesA)
    /\ CallerInit
    /\ TrainerInit
    /\ ToolInit

NextFormula ==
    \E i \in DOMAIN db.composites, f \in FormulaEmgFeatures,
       p \in FormulaPatients :
        CalculateCompositeScore(db.composites[i], f, p)

SpecFormula == InitFormula /\ [][NextFormula]_vars

\* The reference formula, times ScoreUnit(db) = 2000 * H * S with H and S
\* the highest hardness and shrinkage of the catalog; filler20 is the
\* filler score in twentieths
ReferenceScore(c, f, p, filler20) ==
    LET H == max_hardness(db)
        S == max_shrinkage(db)
        wear10 == CASE c.wear_resistance = "low" -> 3
                    [] c.wear_resistance = "medium" -> 6
                    [] c.wear_resistance = "high" -> 9
                    [] c.wear_resistance = "very_high" -> 10
                    [] OTHER -> 5
        filler == c.filler_content_percent
        bulk == c.category \in {"high_viscosity_bulk_fill",
                                "low_viscosity_bulk_fill"}
    IN  600 * c.microhardness_KHN * S
        + 50 * wear10 * H * S
        + 400 * (S - c.polymerization_shrinkage_percent) * H
        + 15 * filler20 * H * S
        + (IF bulk THEN 4 * c.depth_of_cure_mm ELSE 140) * H * S
        + (IF 25 <= filler /\ filler < 50 THEN 300 * H * S
           ELSE IF 20 <= filler /\ filler < 55 THEN 200 * H * S ELSE 0)
        + (IF "masseter_asymmetry_chewing" \in DOMAIN f
              /\ f.masseter_asymmetry_chewing > 20
           THEN 200 * c.microhardness_KHN * S ELSE 0)
        + (IF p.mvc_hyperfunction_percent # None
              /\ p.mvc_hyperfunction_percent[1] > 20
              /\ p.mvc_duration_sec_per_min # None
              /\ p.mvc_duration_sec_per_min[1] >= 4
           THEN 30 * wear10 * H * S ELSE 0)

\* The filler score as claimed, in twentieths: 1.0 on [20,55), filler/20
\* below 20, 0.8 on (55,70], 0.6 on (70,85], 0.4 above 85; no value at 55
ClaimedFillerScore(filler) ==
    CASE 20 <= filler /\ filler < 55 -> Some(20)
      [] filler < 20 -> Some(filler)
      [] 55 < filler /\ filler <= 70 -> Some(16)
      [] 70 < filler /\ filler <= 85 -> Some(12)
      [] filler > 85 -> Some(8)
      [] OTHER -> None

\* The same with 0.8 on the closed band [55,70]
ClosedFillerScore(filler) ==
    CASE 20 <= filler /\ filler < 55 -> 20
      [] filler < 20 -> filler
      [] 55 <= filler /\ filler <= 70 -> 16
      [] 70 < filler /\ filler <= 85 -> 12
      [] filler > 85 -> 8

\* C23, as claimed: calculate_composite_score equals the reference formula
\* with the filler score 0.8 on (55,70].
C23_Original ==
    \A i \in DOMAIN score_calls :
        LET c == score_calls[i]
            claimed == ClaimedFillerScore(c.composite.filler_content_percent)
        IN  /\ claimed # None
            /\ c.score = ReferenceScore(c.composite, c.emg_features,
                                        c.patient_data, claimed[1])

\* C23: calculate_composite_score equals the reference formula, the
\* weighted sum of the five sub-scores plus the in-band filler bonus, the
\* asymmetry bonus and the hyperfunction bonus, with the filler score 1.0
\* on [20,55), filler/20 below 20, 0.8 on [55,70], 0.6 on (70,85] and 0.4
\* above 85.
C23_ReferenceFormula ==
    \A i \in DOMAIN score_calls :
        LET c == score_calls[i]
        IN  c.score = ReferenceScore(
                          c.composite, c.emg_features, c.patient_data,
                          ClosedFillerScore(
                              c.composite.filler_content_percent))

\* A composite of exactly 55% filler has been scored with both bonuses
\* (asymmetry over 20, hyperfunction over 20 for 4 seconds) in a catalog
\* whose hardest material is another one
C23_Witness ==
    /\ Len(score_calls) >= 1
    /\ Len(db.composites) = 2
    /\ LET c == score_calls[Len(score_calls)]
       IN  /\ c.composite.filler_content_percent = 55
           /\ c.composite.microhardness_KHN < max_hardness(db)
           /\ c.emg_features = [masseter_asymmetry_chewing |-> 21]
           /\ c.patient_data.mvc_duration_sec_per_min = Some(4)
           /\ c.patient_data.mvc_hyperfunction_percent = Some(21)
           /\ c.score = ReferenceScore(c.composite, c.emg_features,
                                       c.patient_data, 16)

----------------------------------------------------------------------------
(* filter_composites as the conjunction of its stages, under SpecFilter *)

\* The requirements of stages 1 to 3 on one catalog row
OcclusalPredicate(d, r) ==
    LET required == d.criteria.for_occlusal_restorations.required
    IN  /\ r.viscosity = required.viscosity
        /\ r.polymerization_shrinkage_percent
               <= required.polymerization_shrinkage_percent_max
        /\ r.microhardness_KHN >= required.microhardness_KHN_min
        /\ r.suitable_for_occlusal = required.suitable_for_occlusal
        /\ r.requires_capping = required.requires_capping
        /\ r.category
               \notin d.criteria.for_occlusal_restorations.excluded_categories

ArticlePredicate(r) ==
    /\ r.polymerization_shrinkage_percent <= ArticleShrinkageMax
    /\ r.filler_content_percent >= ArticleFillerMin

AnomalyPredicate(d, r) ==
    LET additional == d.criteria.for_patients_with_occlusion_anomalies
                          .additional_requirements
    IN  /\ r.wear_resistance \in {"high", "very_high"}
        /\ r.microhardness_KHN >= additional.microhardness_KHN_min
        /\ r.polymerization_shrinkage_percent
               <= additional.polymerization_shrinkage_percent_max

\* The requirements of a TWES grade or Bushan degree record on a row
RecordPredicate(criteria, r) ==
    /\ r.microhardness_KHN
           >= Get(criteria, "recommended_microhardness_min",
                  DefaultMicrohardnessMin)
    /\ r.wear_resistance \in
           (IF Get(criteria, "recommended_wear_resistance", "high")
                   = "very_high"
            THEN {"very_high", "high"}
            ELSE {"high", "very_high", "medium"})
    /\ r.filler_content_percent
           >= Get(criteria, "recommended_filler_min", DefaultFillerMin)

\* The requirement of stage 4 for severity ws on a row; none when ws
\* selects no record
WearPredicate(d, ws, r) ==
    LET twes == Lookup(d.twes2_classification, "grades",
                       Replace(ws, "twes_"))
        bushan == Lookup(d.bushan_classification, "degrees",
                         Replace(ws, "bushan_"))
    IN  CASE StartsWith(ws, "twes_") ->
                 twes # None => RecordPredicate(twes[1], r)
          [] ~StartsWith(ws, "twes_") /\ StartsWith(ws, "bushan_") ->
                 bushan # None => RecordPredicate(bushan[1], r)
          [] ws \in {<<"none">>, <<"mild">>} ->
                 r.microhardness_KHN
                     >= d.emg_classification.wear_severity_none_mild
                            .recommended_microhardness_min
          [] ws \in {<<"moderate">>, <<"severe">>} ->
                 /\ r.microhardness_KHN
                        >= d.emg_classification.wear_severity_moderate_severe
                               .recommended_microhardness_min
                 /\ r.wear_resistance \in
                        {d.emg_classification.wear_severity_moderate_severe
                             .recommended_wear_resistance, "high"}
          [] OTHER -> TRUE

\* Stages 1 to 4 on a row, each applied when its flag is true or its
\* severity given
FlagStages(d, a, r) ==
    /\ a.for_occlusal => OcclusalPredicate(d, r)
    /\ a.use_article_rules => ArticlePredicate(r)
    /\ a.has_occlusion_anomaly => AnomalyPredicate(d, r)
    /\ a.wear_severity # None => WearPredicate(d, a.wear_severity[1], r)

\* Stage 5 on a row, a list or threshold applied whenever it is supplied
SuppliedFilters(a, r) ==
    /\ a.region_filter # None => r.region \in a.region_filter[1]
    /\ a.manufacturer_filter # None
           => r.manufacturer \in a.manufacturer_filter[1]
    /\ a.year_min # None => r.year_released >= a.year_min[1]
    /\ a.price_max # None => r.price_rub <= a.price_max[1]

\* Stage 5 on a row, a list applied when it is non-empty and has no "all"
\* entry, a threshold when it is not zero
EffectiveFilters(a, r) ==
    /\ (a.region_filter # None /\ a.region_filter[1] # {}
            /\ All \notin a.region_filter[1])
           => r.region \in a.region_filter[1]
    /\ (a.manufacturer_filter # None /\ a.manufacturer_filter[1] # {}
            /\ All \notin a.manufacturer_filter[1])
           => r.manufacturer \in a.manufacturer_filter[1]
    /\ (a.year_min # None /\ a.year_min[1] # 0)
           => r.year_released >= a.year_min[1]
    /\ (a.price_max # None /\ a.price_max[1] # 0)
           => r.price_rub <= a.price_max[1]

\* The rows of df without their filler_optimal tag
Untagged(df) == {[df[i] EXCEPT !.filler_optimal = None] : i \in DOMAIN df}

----------------------------------------------------------------------------
(* Training on a corpus with control pairs.  A pair is given by its        *)
(* composite_name; its other fields reach the feature matrix only.         *)

MaxCorpus == 4
MaxCorpusCalls == 1

CompositeNames == {None, Some(""), Some("A"), Some("B")}

Corpora == UNION {[1..n -> CompositeNames] : n \in 0..MaxCorpus}

\* `if p.composite_name`
HasComposite(name) == name # None /\ name[1] # ""

\* The distinct entries of s in the order of their first occurrence
RECURSIVE Unique(_)
Unique(s) ==
    IF s = <<>> THEN <<>>
    ELSE <<Head(s)>> \o Unique(SelectSeq(Tail(s), LAMBDA x : x # Head(s)))

\* What train reads of a corpus: valid_pairs and Counter(y)
PairsOf(corpus) ==
    LET y == SelectSeq(corpus, HasComposite)
        classes == Unique(y)
    IN  Pairs(Len(corpus) - Len(y),
              [k \in DOMAIN classes |->
                  Cardinality({i \in DOMAIN y : y[i] = classes[k]})])

InitCorpus ==
    /\ db = CompositeDatabase(<<Pool[1]>>, TablesA)
    /\ CallerInit
    /\ TrainerInit
    /\ ToolInit

\* trainer.train(corpus, model_type, use_ensemble)
TrainOnCorpus(corpus, model_type, use_ensemble, fits) ==
    /\ call.op = "none"
    /\ train_calls < MaxCorpusCalls
    /\ call' = [op |-> "train",
                args |-> [pairs |-> corpus, model_type |-> model_type,
                          use_ensemble |-> use_ensemble]]
    /\ train_calls' = train_calls + 1
    /\ LET r == train(Artifact(model, scaler, feature_names),
                      PairsOf(corpus), model_type, use_ensemble, fits,
                      train_calls + 1)
       IN  /\ model' = r.artifact.model
           /\ scaler' = r.artifact.scaler
           /\ feature_names' = r.artifact.feature_names
           /\ train_ret' = r.ret
           /\ completed' = (completed \/ r.ret.status = "ok")
    /\ UNCHANGED <<db, filtered, priority_results, alternative_results, ret,
                   score_calls, saved>>
    /\ UNCHANGED toolVars

NextCorpus ==
    \/ \E corpus \in Corpora, model_type \in ModelTypes,
          use_ensemble \in BOOLEAN, fits \in BOOLEAN :
           TrainOnCorpus(corpus, model_type, use_ensemble, fits)
    \/ Return

SpecCorpus == InitCorpus /\ [][NextCorpus]_vars

\* What a train call leaves to its caller and in the trainer: the metrics
\* or the kind of error, and the artifact
Outcome(r) ==
    [artifact |-> r.artifact,
     ret |-> IF r.ret.status = "ok" THEN r.ret
             ELSE [status |-> "error", error |-> r.ret.error]]

\* The step is a train call whose outcome is that of training on the
\* pairs of its corpus that `keep` keeps, and whose metrics count those
\* pairs and their distinct names
TrainsOnKept(keep(_)) ==
    LET corpus == call'.args.pairs
        kept == SelectSeq(corpus, keep)
    IN  /\ \E fits \in BOOLEAN :
               Outcome([artifact |-> Artifact(model', scaler',
                                              feature_names'),
                        ret |-> train_ret'])
                   = Outcome(train(Artifact(model, scaler, feature_names),
                                   PairsOf(kept), call'.args.model_type,
                                   call'.args.use_ensemble, fits,
                                   train_calls'))
        /\ train_ret'.status = "ok" =>
               /\ train_ret'.metrics.train_size = Len(kept)
               /\ train_ret'.metrics.unique_composites
                      = Cardinality({kept[i] : i \in DOMAIN kept})

NonNull(name) == name # None

\* C25, as claimed: the outcome of train depends only on the pairs with a
\* non-null composite_name; train_size is their number and the class count
\* the number of their distinct names.
C25_Original ==
    [][call'.op = "train" => TrainsOnKept(NonNull)]_vars

\* C25: control pairs never take part in training: the outcome of train
\* depends only on the pairs with a non-empty composite_name (neither null
\* nor the empty string); train_size is the number of such pairs and the
\* class count the number of distinct names among them.
C25_ControlsTakeNoPart ==
    [][call'.op = "train" => TrainsOnKept(HasComposite)]_vars

\* A corpus of a control pair, two named pairs and a pair with an empty
\* name has been trained on: two examples, two classes
C25_Witness ==
    /\ TrainCalled
    /\ call.args.pairs = <<None, Some("A"), Some(""), Some("B")>>
    /\ train_ret.status = "ok"
    /\ train_ret.metrics.train_size = 2
    /\ train_ret.metrics.unique_composites = 2

----------------------------------------------------------------------------
(* The ensemble step of train, under SpecTrain *)

\* The last call was a train call that returned metrics
TrainReturned == TrainCalled /\ train_ret.status = "ok"

\* The call asked for the ensemble on more than 50 training examples
EnsembleRequested ==
    /\ call.args.use_ensemble
    /\ NumLabeled(call.args.pairs) > EnsembleAbove

\* The trainer holds the voting ensemble, or the base classifier of the
\* requested type, fitted by the last train call
EnsembleDeployed == model = Some(Classifier("ensemble", TRUE, train_calls))
BaseDeployed ==
    model = Some(Classifier(call.args.model_type, TRUE, train_calls))

C30_ReportedTypeIsDeployed ==
    TrainReturned =>
        /\ train_ret.metrics.model_type = "ensemble" <=> EnsembleDeployed
        /\ ~EnsembleDeployed =>
               train_ret.metrics.model_type = call.args.model_type

----------------------------------------------------------------------------
(* The extractor's corpus, under SpecExtract *)

\* C27: the extractor's corpus is append-only: every extract_patient_data
\* call appends to extracted_pairs exactly the pairs it returns, in order,
\* and nothing ever removes, reorders or modifies the earlier entries.
C27_CorpusAppendOnly ==
    [][IF call'.op = "extract_patient_data" /\ call.op = "none"
       THEN extracted_pairs' = extracted_pairs \o result'.value
       ELSE extracted_pairs' = extracted_pairs]_vars

\* A call on a text with two composite mentions has added its two pairs
\* behind the pair of an earlier call
C27_Witness ==
    /\ ExtractCalled
    /\ Len(result.value) = 2
    /\ Len(extracted_pairs) = 3
    /\ extracted_pairs[2] = result.value[1]
    /\ extracted_pairs[3] = result.value[2]
    /\ extracted_pairs[1] # extracted_pairs[2]

----------------------------------------------------------------------------
(* select_composite for patients who carry filter constraints *)

\* PatientData with its optional filters: region list, manufacturer list,
\* minimum year, maximum price
ConstrainedPatients ==
    {[masseter_right_chewing |-> 350, masseter_left_chewing |-> 340,
      occlusion_anomaly_type |-> o, wear_severity |-> None,
      mvc_hyperfunction_percent |-> None,
      mvc_duration_sec_per_min |-> None,
      region_filter |-> x.region_filter,
      manufacturer_filter |-> x.manufacturer_filter,
      year_min |-> x.year_min, price_max |-> x.price_max] :
        o \in {None, Some("crossbite")},
        x \in {[region_filter |-> None, manufacturer_filter |-> None,
                year_min |-> None, price_max |-> None],
               [region_filter |-> Some({"RU"}), manufacturer_filter |-> None,
                year_min |-> None, price_max |-> None],
               [region_filter |-> None, manufacturer_filter |-> Some({"M2"}),
                year_min |-> None, price_max |-> None],
               [region_filter |-> None, manufacturer_filter |-> None,
                year_min |-> Some(2020), price_max |-> None],
               [region_filter |-> None, manufacturer_filter |-> None,
                year_min |-> None, price_max |-> Some(2000)],
               [region_filter |-> Some({"RU"}),
                manufacturer_filter |-> Some({"M2"}),
                year_min |-> Some(2020), price_max |-> Some(2000)]}}

InitConstrained ==
    /\ \E records \in Catalogs(SelectPool, MaxSelectCatalog) :
           db = CompositeDatabase(records, TablesA)
    /\ CallerInit
    /\ TrainerInit
    /\ ToolInit

NextConstrained ==
    \/ \E p \in ConstrainedPatients, b \in BOOLEAN :
           SelectComposite(p, 5, b)
    \/ Return

SpecConstrained == InitConstrained /\ [][NextConstrained]_vars

\* C28: every composite select_composite returns honours the patient's
\* optional filter constraints when they are set: its region is in
\* region_filter, its manufacturer in manufacturer_filter, its
\* year_released >= year_min and its price <= price_max.
C28_ResultsHonourPatientFilters ==
    SelectCalled =>
        \A i \in DOMAIN ret :
            EffectiveFilters(call.args.patient_data, ret[i].composite)

----------------------------------------------------------------------------
(* A wear severity that selects no record, under SpecFilter *)

\* w is a non-empty severity that selects nothing: a twes_ or bushan_ code
\* without a record in the table, or a string that is no code and none of
\* none / mild / moderate / severe
SelectsNoRecord(d, w) ==
    /\ TruthyStr(w)
    /\ IF StartsWith(w[1], "twes_") \/ StartsWith(w[1], "bushan_")
       THEN SelectedRecord(d, w) = None
       ELSE w[1] \notin {<<"none">>, <<"mild">>, <<"moderate">>,
                         <<"severe">>}

\* C29: filter_composites with a non-empty wear_severity that selects no
\* record (a twes_ / bushan_ code whose grade or degree is absent from the
\* classification table, or a string outside none / mild / moderate /
\* severe) applies no wear-severity constraint and raises no error: its
\* result equals the result for wear_severity = None with all other
\* arguments equal.
C29_UnselectedSeverityIsNoSeverity ==
    (FilterCalled /\ SelectsNoRecord(db, call.args.wear_severity)) =>
        filtered = filter_composites(
                       db, [call.args EXCEPT !.wear_severity = None])

\* The grade of twes_9 is not in the table: the call returns a composite
\* whose filler is below the default minimum of a record (60)
C29_Witness ==
    /\ FilterCalled
    /\ call.args.wear_severity = Some(<<"twes_", "9">>)
    /\ "grades" \in DOMAIN db.twes2_classification
    /\ SelectsNoRecord(db, call.args.wear_severity)
    /\ \E r \in Rows(filtered) :
           r.filler_content_percent < DefaultFillerMin

====
